---- MODULE Spec2Model ----
(***************************************************************************)
(* nmgbodil/model-audit-cli: the retrying HTTP client (_get_json), the     *)
(* metric engine (_clamp, _safe_run, run_metrics), the evaluator's engine  *)
(* entry point, the aggregator (NetScore.evaluate) and the fetch scopes    *)
(* (open_codebase and the fetchers' __enter__ / __exit__), as state        *)
(* machines.                                                               *)
(*                                                                         *)
(* Numbers that are floats in the program (metric values) are carried in   *)
(* hundredths: 1.0 is 100, 0.5 is 50.  A float is a record that says       *)
(* whether it is NaN and, if not, its number of hundredths.                *)
(***************************************************************************)
EXTENDS Integers, Sequences, FiniteSets, TLC

VARIABLES
    \* ---- _get_json and the metadata requests (adapters/hf_client.py, adapters/client.py) ----
    url,        \* self.base_url + path
    retries,    \* the retries argument
    backoff,    \* the backoff argument
    attempt,    \* the loop variable of `for attempt in range(retries + 1)`
    response,   \* the local `response`: Unbound until a GET has returned one
    gets,       \* history: what each requests.get(url) produced, in order
    sleeps,     \* history: the argument of each time.sleep, in order
    cpc,        \* "loop" | "returned" | "raised" | "off"
    cresult,    \* what _get_json returned or raised
    mresult,    \* what get_model_metadata / get_dataset_metadata returned or raised
    \* ---- the metric engine (model_audit_cli/metrics_engine.py, metrics/types.py) ----
    METRICS,      \* types.METRICS: the registry, <<name, fn>> pairs in insertion order
    epc,          \* "import" | "idle" | "seq" | "par" | "off"
    metric_items, \* list(METRICS.items()) of the running call
    results,      \* the `results` dict of the running call
    tasks,        \* parallel mode: each submitted task "queued" or "running"
    invoked,      \* history: how many times the running call has called each fn
    returned,     \* per execution mode, the mapping the last call returned
    \* ---- the evaluator and its engine entry point (evaluator.py, metrics_engine.py) ----
    lines,        \* Path(path).read_text().splitlines()
    line_no,      \* how many lines main's loop has consumed
    stdout,       \* the records printed so far
    include,      \* the include argument of a direct run_metrics call
    call_out,     \* what that call returned
    vpc,          \* "ready" | "main" | "exit" | "off"
    \* ---- NetScore.evaluate (metrics/net_score.py) ----
    metrics,         \* the argument of evaluate: a list of Metric objects
    mi,              \* how many of them the loop has consumed
    self_value,      \* self.value, in 1/40000
    self_latency_ms, \* self.latency_ms
    npc,             \* "loop" | "done" | "raised" | "off"
    nerr,            \* the exception evaluate raised, "" if none
    \* ---- fetch scopes (adapters/code_fetchers.py, hf_fetchers.py, github_fetcher.py) ----
    call,        \* the call that makes the context manager, with its arguments
    fetcher,     \* the context manager: its class and fields
    tmp_dir,     \* the directory of tempfile.TemporaryDirectory: "none" | "exists" | "removed"
    http_gets,   \* history: the url and headers of each requests.get
    body,        \* the body of the with statement: "not_run" | "returned" | "raised"
    cleanups,    \* history: how many times _tmp_dir.cleanup() was called
    observed,    \* what the caller of the with statement gets: NoError or an exception
    snapshot_calls, \* history: the keyword arguments of each snapshot_download call
    view_files,  \* the regular files under the view's root, each with its size in bytes
    extracted,   \* the top-level entries tarfile.extractall wrote into the directory
    _root,       \* the root __enter__ gave the view: None, "." (the directory) or a name in it
    fpc,         \* "call" | "opened" | "entered" | "body_done" | "exited" | "failed" | "off"
    \* ---- resources (resources/base_resource.py, model_resource.py, code_resource.py) ----
    resource,    \* the resource object: its class, url, _repo_id and metadata
    rlog,        \* history: each call made on the resource, with what it did and gave
    rpc,         \* "new" | "ready" | "failed" | "off"
    \* ---- logging (logger.py) ----
    environ,     \* os.environ: LOG_FILE and LOG_LEVEL, None when unset
    root_logger, \* logging.getLogger(): its handlers and its level
    lpc          \* "env" | "configured" | "off"

clientVars == <<url, retries, backoff, attempt, response, gets, sleeps, cpc, cresult,
               mresult>>

engineVars == <<METRICS, epc, metric_items, results, tasks, invoked, returned>>

evalVars == <<lines, line_no, stdout, include, call_out, vpc>>

netVars == <<metrics, mi, self_value, self_latency_ms, npc, nerr>>

fetchVars == <<call, fetcher, tmp_dir, http_gets, body, cleanups, observed,
              snapshot_calls, view_files, extracted, _root, fpc>>

resVars == <<resource, rlog, rpc>>

logVars == <<environ, root_logger, lpc>>

vars == <<clientVars, engineVars, evalVars, netVars, fetchVars, resVars, logVars>>

\* What the actions of one component leave alone.
NotClient == <<engineVars, evalVars, netVars, fetchVars, resVars, logVars>>

NotEngine == <<clientVars, evalVars, netVars, fetchVars, resVars, logVars>>

NotEval == <<clientVars, engineVars, netVars, fetchVars, resVars, logVars>>

NotNet == <<clientVars, engineVars, evalVars, fetchVars, resVars, logVars>>

NotFetch == <<clientVars, engineVars, evalVars, netVars, resVars, logVars>>

NotRes == <<clientVars, engineVars, evalVars, netVars, fetchVars, logVars>>

NotLog == <<clientVars, engineVars, evalVars, netVars, fetchVars, resVars>>

-----------------------------------------------------------------------------
(* Bounds *)

MaxRetries == 2

\* How many calls are made on one resource object.
MaxCalls == 2

\* How many metric results an input list of evaluate has beyond a full record.
MaxInputs == 2

\* How many metric modules can register, and the size of the worker pool.
MaxMetrics == 2

MaxWorkers == 2

\* The longest input file of the evaluator, in lines.
MaxLines == 2

-----------------------------------------------------------------------------
(* The retrying HTTP client *)

Unbound == [kind |-> "unbound", status |-> 0, text |-> "", retry_after |-> "absent"]

\* A Retry-After header is either delay-seconds or an HTTP-date (RFC 9110).
HTTPDate == "Wed, 21 Oct 2015 07:28:00 GMT"

RetryAfterValues == {"absent", "1", "7", HTTPDate}

\* float(s) of a header string: defined on the decimal strings, ValueError otherwise.
FloatParses(s) == s \in {"1", "7"}

FloatOf(s) == CASE s = "1" -> 1 [] s = "7" -> 7

base_url == "https://huggingface.co"

Paths == {"/api/models/o/m", "/api/datasets/o/d"}

Backoffs == {1, 2}

\* What one requests.get(url) can produce: a response, or a transport-level
\* requests.exceptions.RequestException (ConnectionError, Timeout) with no response.
Responses ==
    [kind : {"response"}, status : {200}, text : {"{\"name\": \"m\"}", "[\"x\"]"},
     retry_after : {"absent"}]
    \cup [kind : {"response"}, status : {404, 503}, text : {"err-a", "err-b"},
          retry_after : {"absent"}]
    \cup [kind : {"response"}, status : {429}, text : {"slow down"},
          retry_after : RetryAfterValues]

TransportFailure == [kind |-> "exception", status |-> 0, text |-> "", retry_after |-> "absent"]

GetOutcomes == Responses \cup {TransportFailure}

\* response.raise_for_status(): raises HTTPError for 4xx and 5xx.
raise_for_status(status) == 400 <= status /\ status < 600

\* response.json(): the parsed body.
json(text) ==
    CASE text = "{\"name\": \"m\"}" -> [type |-> "dict", repr |-> text]
      [] text = "[\"x\"]" -> [type |-> "list", repr |-> text]

\* 2 ** attempt
RECURSIVE Pow2(_)
Pow2(n) == IF n = 0 THEN 1 ELSE 2 * Pow2(n - 1)

\* Variant: the wait does not grow with the attempt.
ComputedBackoff_mut(b, a) == b

\* backoff * 2**attempt
ComputedBackoff(b, a) == b * Pow2(a)

\* Variant: the retry test gives up one attempt early.
Retry5xx_mut(status, a, r) == status >= 500 /\ a + 1 < r

\* `response.status_code >= 500 and attempt < retries`
Retry5xx(status, a, r) == status >= 500 /\ a < r

\* Variant: every 4xx is retried like a 429.
Retry429_mut(status, a, r) == status >= 400 /\ status < 500 /\ a < r

\* `response.status_code == 429 and attempt < retries`
Retry429(status, a, r) == status = 429 /\ a < r

\* Variant: the error is built without the response body.
RaiseAfterLoop_mut(u, resp) ==
    IF resp = Unbound
    THEN [kind |-> "UnboundLocalError", url |-> "", status |-> 0, body |-> ""]
    ELSE [kind |-> "http_error_from_hf_response", url |-> u,
          status |-> resp.status, body |-> ""]

\* raise http_error_from_hf_response(url=url, status=response.status_code,
\* body=response.text) after the loop.  Reading `response` while it is still
\* unbound raises UnboundLocalError instead.
RaiseAfterLoop(u, resp) ==
    IF resp = Unbound
    THEN [kind |-> "UnboundLocalError", url |-> "", status |-> 0, body |-> ""]
    ELSE [kind |-> "http_error_from_hf_response", url |-> u,
          status |-> resp.status, body |-> resp.text]

ClientInit ==
    /\ \E p \in Paths : url = base_url \o p
    /\ retries \in 0..MaxRetries
    /\ backoff \in Backoffs
    /\ attempt = 0
    /\ response = Unbound
    /\ gets = <<>>
    /\ sleeps = <<>>
    /\ cpc = "loop"
    /\ cresult = [kind |-> "none"]
    /\ mresult = [kind |-> "none"]

\* The client is not in use.
ClientOff ==
    /\ url = base_url
    /\ retries = 0
    /\ backoff = 2
    /\ attempt = 0
    /\ response = Unbound
    /\ gets = <<>>
    /\ sleeps = <<>>
    /\ cpc = "off"
    /\ cresult = [kind |-> "none"]
    /\ mresult = [kind |-> "none"]

\* One iteration: the GET returns a response and raise_for_status passes.
GetOk ==
    /\ cpc = "loop"
    /\ \E o \in Responses :
        /\ ~raise_for_status(o.status)
        /\ gets' = Append(gets, o)
        /\ response' = o
        /\ cpc' = "returned"
        /\ cresult' = [kind |-> "return", value |-> json(o.text)]
    /\ UNCHANGED <<url, retries, backoff, attempt, sleeps, mresult, NotClient>>

\* One iteration: HTTPError with a 5xx status and attempts left: sleep, continue.
GetRetry5xx ==
    /\ cpc = "loop"
    /\ \E o \in Responses :
        /\ raise_for_status(o.status)
        /\ Retry5xx(o.status, attempt, retries)
        /\ gets' = Append(gets, o)
        /\ response' = o
        /\ sleeps' = Append(sleeps, ComputedBackoff(backoff, attempt))
        /\ attempt' = attempt + 1
    /\ UNCHANGED <<url, retries, backoff, cpc, cresult, mresult, NotClient>>

\* One iteration: HTTPError with status 429 and attempts left:
\* sleep(float(headers.get("Retry-After", backoff * 2**attempt))), continue.
\* float() of a header that is not a decimal number raises ValueError, which no
\* except clause of _get_json catches.
GetRetry429 ==
    /\ cpc = "loop"
    /\ \E o \in Responses :
        /\ raise_for_status(o.status)
        /\ ~Retry5xx(o.status, attempt, retries)
        /\ Retry429(o.status, attempt, retries)
        /\ gets' = Append(gets, o)
        /\ response' = o
        /\ IF o.retry_after = "absent"
           THEN /\ sleeps' = Append(sleeps, ComputedBackoff(backoff, attempt))
                /\ attempt' = attempt + 1
                /\ UNCHANGED <<cpc, cresult>>
           ELSE IF FloatParses(o.retry_after)
           THEN /\ sleeps' = Append(sleeps, FloatOf(o.retry_after))
                /\ attempt' = attempt + 1
                /\ UNCHANGED <<cpc, cresult>>
           ELSE /\ cpc' = "raised"
                /\ cresult' = [kind |-> "ValueError", url |-> "", status |-> 0, body |-> ""]
                /\ UNCHANGED <<sleeps, attempt>>
    /\ UNCHANGED <<url, retries, backoff, mresult, NotClient>>

\* One iteration: HTTPError that is not retried: break, then the raise after the loop.
GetHttpBreak ==
    /\ cpc = "loop"
    /\ \E o \in Responses :
        /\ raise_for_status(o.status)
        /\ ~Retry5xx(o.status, attempt, retries)
        /\ ~Retry429(o.status, attempt, retries)
        /\ gets' = Append(gets, o)
        /\ response' = o
        /\ cpc' = "raised"
        /\ cresult' = RaiseAfterLoop(url, o)
    /\ UNCHANGED <<url, retries, backoff, attempt, sleeps, mresult, NotClient>>

\* One iteration: requests.get raises a RequestException that is not an HTTPError
\* and attempts are left: sleep, next iteration.  `response` keeps what it held.
GetTransportRetry ==
    /\ cpc = "loop"
    /\ attempt < retries
    /\ gets' = Append(gets, TransportFailure)
    /\ sleeps' = Append(sleeps, ComputedBackoff(backoff, attempt))
    /\ attempt' = attempt + 1
    /\ UNCHANGED <<url, retries, backoff, response, cpc, cresult, mresult, NotClient>>

\* One iteration: the same exception on the last attempt: break, then the raise
\* after the loop, which reads `response` as the earlier iterations left it.
GetTransportBreak ==
    /\ cpc = "loop"
    /\ ~(attempt < retries)
    /\ gets' = Append(gets, TransportFailure)
    /\ cpc' = "raised"
    /\ cresult' = RaiseAfterLoop(url, response)
    /\ UNCHANGED <<url, retries, backoff, attempt, response, sleeps, mresult, NotClient>>

\* Variant: the shape of the body is not looked at.
IsDict_mut(data) == TRUE

\* isinstance(data, dict)
IsDict(data) == data.type = "dict"

\* get_model_metadata / get_dataset_metadata after _get_json returned a
\* mapping: `return data`.
MetadataReturns ==
    /\ cpc = "returned"
    /\ mresult.kind = "none"
    /\ IsDict(cresult.value)
    /\ mresult' = [kind |-> "return", value |-> cresult.value]
    /\ UNCHANGED <<url, retries, backoff, attempt, response, gets, sleeps, cpc, cresult,
                   NotClient>>

\* The same after _get_json returned anything else: AppError(SCHEMA_ERROR) with
\* the url and the type's name in its context.
MetadataSchemaError ==
    /\ cpc = "returned"
    /\ mresult.kind = "none"
    /\ ~IsDict(cresult.value)
    /\ mresult' = [kind |-> "AppError", code |-> "SCHEMA_ERROR", url |-> url,
                   type |-> cresult.value.type]
    /\ UNCHANGED <<url, retries, backoff, attempt, response, gets, sleeps, cpc, cresult,
                   NotClient>>

\* The same when _get_json raised: its exception leaves the method.
MetadataPropagates ==
    /\ cpc = "raised"
    /\ mresult.kind = "none"
    /\ mresult' = [kind |-> "raised", error |-> cresult]
    /\ UNCHANGED <<url, retries, backoff, attempt, response, gets, sleeps, cpc, cresult,
                   NotClient>>

ClientNext ==
    \/ GetOk
    \/ GetRetry5xx
    \/ GetRetry429
    \/ GetHttpBreak
    \/ GetTransportRetry
    \/ GetTransportBreak
    \/ MetadataReturns
    \/ MetadataSchemaError
    \/ MetadataPropagates


-----------------------------------------------------------------------------
(* The metric engine *)

\* A float: a number of hundredths, or NaN.
Float(h) == [nan |-> FALSE, h |-> h]

NaN == [nan |-> TRUE, h |-> 0]

\* Python's x < y and x > y on floats: False whenever an operand is NaN.
FloatLt(x, y) == ~x.nan /\ ~y.nan /\ x.h < y.h

FloatGt(x, y) == ~x.nan /\ ~y.nan /\ x.h > y.h

\* _clamp(x): the two comparisons with 0.0 and 1.0, then x itself.
_clamp(x) ==
    IF FloatLt(x, Float(0)) THEN Float(0)
    ELSE IF FloatGt(x, Float(100)) THEN Float(100)
    ELSE x

\* The names under which metric modules register, in import order.
MetricNames == <<"ramp_up_time", "bus_factor", "code_quality", "license">>

EmptyDict == [k \in {} |-> Float(0)]

EmptyDetails == [k \in {} |-> ""]

\* A value a metric can put in MetricResult.value, and what the engine returns.
ScalarValue(f) == [shape |-> "float", f |-> f, d |-> EmptyDict]

DictValue(d) == [shape |-> "dict", f |-> Float(0), d |-> d]

OtherValue == [shape |-> "other", f |-> Float(0), d |-> EmptyDict]

\* A mapping entry as the metric returned it: a number, or something float()
\* rejects.
Num(h) == [isnum |-> TRUE, f |-> Float(h)]

NotNum == [isnum |-> FALSE, f |-> Float(0)]

SizeLike == [k \in {"raspberry_pi", "desktop_pc", "aws_server"} |->
                CASE k = "raspberry_pi" -> Num(-50)
                  [] k = "desktop_pc" -> Num(50)
                  [] k = "aws_server" -> Num(150)]

BadEntry == [k \in {"raspberry_pi", "desktop_pc"} |->
                IF k = "raspberry_pi" THEN Num(50) ELSE NotNum]

\* What calling a metric function does: it raises, or returns a result with a
\* value and details.  A mapping value is given by rawdict, its entries as the
\* metric produced them.
Raises(type, msg) ==
    [kind |-> "raise", value |-> OtherValue, rawdict |-> [k \in {} |-> NotNum],
     details |-> EmptyDetails, exc_type |-> type, exc_msg |-> msg]

Returns(value, rawdict, details) ==
    [kind |-> "return", value |-> value, rawdict |-> rawdict,
     details |-> details, exc_type |-> "", exc_msg |-> ""]

NoRaw == [k \in {} |-> NotNum]

\* A function that returns a plain dict, {"<name>": score, "<name>_latency": ms},
\* and no MetricResult.
ReturnsPlainDict(score) ==
    [kind |-> "return_dict", value |-> ScalarValue(score), rawdict |-> NoRaw,
     details |-> EmptyDetails, exc_type |-> "", exc_msg |-> ""]

\* What ramp_up_time reads from its argument: the length of readme_text,
\* whether a file of example_files is a notebook or an example, and likes.
RampUpInputs ==
    {[readme_len |-> 2500, has_example |-> FALSE, likes |-> 400],
     [readme_len |-> 9000, has_example |-> TRUE, likes |-> 2000]}

\* min(x / bound, 1.0), in hundredths.
MinRatio(x, bound) == IF x >= bound THEN 100 ELSE (100 * x) \div bound

\* ramp_up_time(model): 0.4 * readme_score + 0.35 * examples_score
\* + 0.25 * likes_score, returned in a plain dict.
ramp_up_time(model) ==
    LET readme_score == MinRatio(model.readme_len, 5000)
        examples_score == IF model.has_example THEN 100 ELSE 0
        likes_score == MinRatio(model.likes, 1000)
    IN  ReturnsPlainDict(Float((40 * readme_score + 35 * examples_score
                                + 25 * likes_score) \div 100))

MetricFns ==
    {Raises("RuntimeError", "boom")}
    \cup {ramp_up_time(model) : model \in RampUpInputs}
    \cup {Returns(ScalarValue(f), NoRaw, EmptyDetails) :
              f \in {Float(-50), Float(50), Float(150), NaN}}
    \cup {Returns(DictValue(EmptyDict), SizeLike, EmptyDetails),
          Returns(DictValue(EmptyDict), BadEntry, EmptyDetails),
          Returns(OtherValue, NoRaw, [k \in {"source"} |-> "readme"])}

\* Variant: every result is built under one fixed name.
MetricResult_mut(name, value, latency_ms, details) ==
    [name |-> "metric", value |-> value, latency_ms |-> latency_ms, details |-> details]

\* MetricResult(name=..., value=..., latency_ms=..., details=...)
MetricResult(name, value, latency_ms, details) ==
    [name |-> name, value |-> value, latency_ms |-> latency_ms, details |-> details]

\* time.perf_counter() differences, in milliseconds.
Latencies == {0, 3}

\* The except branch of _safe_run: value 0.0 and details {"error": "<type>: <e>"}.
ErrorResult(name, dt_ms, type, msg) ==
    MetricResult(name, ScalarValue(Float(0)), dt_ms,
                 [k \in {"error"} |-> type \o ": " \o msg])

\* Variant: the except branch records no error detail.
_safe_run_mut(name, fn, dt_ms) ==
    IF fn.kind \in {"raise", "return_dict"}
    THEN MetricResult(name, ScalarValue(Float(0)), dt_ms, EmptyDetails)
    ELSE IF fn.value.shape = "float"
    THEN MetricResult(name, ScalarValue(_clamp(fn.value.f)), dt_ms, fn.details)
    ELSE IF fn.value.shape = "dict"
    THEN IF \E k \in DOMAIN fn.rawdict : ~fn.rawdict[k].isnum
         THEN ErrorResult(name, dt_ms, "ValueError", "could not convert string to float")
         ELSE MetricResult(name,
                           DictValue([k \in DOMAIN fn.rawdict |-> _clamp(fn.rawdict[k].f)]),
                           dt_ms, fn.details)
    ELSE MetricResult(name, ScalarValue(Float(0)), dt_ms, fn.details)

\* _safe_run(name, fn, model), with the measured latency dt_ms: r = fn(model);
\* r.value of a plain dict raises AttributeError inside the try; a number is
\* clamped, a mapping has float() and _clamp applied entry by entry
\* (a float() that raises lands in the except branch like a raise of fn), any
\* other value becomes 0.0; details are r.details as they are.
_safe_run(name, fn, dt_ms) ==
    IF fn.kind = "raise"
    THEN ErrorResult(name, dt_ms, fn.exc_type, fn.exc_msg)
    ELSE IF fn.kind = "return_dict"
    THEN ErrorResult(name, dt_ms, "AttributeError", "'dict' object has no attribute 'value'")
    ELSE IF fn.value.shape = "float"
    THEN MetricResult(name, ScalarValue(_clamp(fn.value.f)), dt_ms, fn.details)
    ELSE IF fn.value.shape = "dict"
    THEN IF \E k \in DOMAIN fn.rawdict : ~fn.rawdict[k].isnum
         THEN ErrorResult(name, dt_ms, "ValueError", "could not convert string to float")
         ELSE MetricResult(name,
                           DictValue([k \in DOMAIN fn.rawdict |-> _clamp(fn.rawdict[k].f)]),
                           dt_ms, fn.details)
    ELSE MetricResult(name, ScalarValue(Float(0)), dt_ms, fn.details)

NoResults == [k \in {} |-> MetricResult("", OtherValue, 0, EmptyDetails)]

\* Variant: a result is stored only when its value is truthy.
SetItem_mut(res, name, r) ==
    IF r.value = ScalarValue(Float(0)) THEN res
    ELSE [k \in DOMAIN res \cup {name} |-> IF k = name THEN r ELSE res[k]]

\* results[name] = r
SetItem(res, name, r) ==
    [k \in DOMAIN res \cup {name} |-> IF k = name THEN r ELSE res[k]]

Modes == {"seq", "par"}

\* What the caller sees of a returned mapping, latency left out.
Observed(res) ==
    [k \in DOMAIN res |->
        [name |-> res[k].name, value |-> res[k].value, details |-> res[k].details]]

\* No metric function has been called.
NoCalls == [k \in {} |-> 0]

\* fn(model) of the metric registered as name is called once more.
Called(calls, name) ==
    [k \in DOMAIN calls \cup {name} |->
        IF k = name THEN (IF name \in DOMAIN calls THEN calls[name] + 1 ELSE 1)
        ELSE calls[k]]

NotReturned == [done |-> FALSE, out |-> Observed(NoResults), calls |-> NoCalls]

RegisteredNames == {METRICS[i][1] : i \in 1..Len(METRICS)}

IndexOf(name) == CHOOSE i \in 1..Len(MetricNames) : MetricNames[i] = name

EngineInit ==
    /\ METRICS = <<>>
    /\ epc = "import"
    /\ metric_items = <<>>
    /\ results = NoResults
    /\ tasks = [k \in {} |-> "queued"]
    /\ invoked = NoCalls
    /\ returned = [m \in Modes |-> NotReturned]

\* The engine is not in use.
EngineOff ==
    /\ METRICS = <<>>
    /\ epc = "off"
    /\ metric_items = <<>>
    /\ results = NoResults
    /\ tasks = [k \in {} |-> "queued"]
    /\ invoked = NoCalls
    /\ returned = [m \in Modes |-> NotReturned]

\* METRICS[name] = fn on a dict: a new key goes last, an existing key keeps its
\* place and gets the new value.
DictSet(items, name, fn) ==
    IF \E j \in 1..Len(items) : items[j][1] = name
    THEN [j \in 1..Len(items) |-> IF items[j][1] = name THEN <<name, fn>> ELSE items[j]]
    ELSE Append(items, <<name, fn>>)

\* @register(name) on a metric function, run when its module is imported:
\* METRICS[name] = fn.  Modules are imported in a fixed order; two of them may
\* register under the same name.
register ==
    /\ epc = "import"
    /\ \E i \in 1..MaxMetrics, fn \in MetricFns :
        /\ \A j \in 1..Len(METRICS) : IndexOf(METRICS[j][1]) <= i
        /\ METRICS' = DictSet(METRICS, MetricNames[i], fn)
    /\ UNCHANGED <<epc, metric_items, results, tasks, invoked, returned, NotEngine>>

\* The imports are over.
ImportsDone ==
    /\ epc = "import"
    /\ epc' = "idle"
    /\ UNCHANGED <<METRICS, metric_items, results, tasks, invoked, returned, NotEngine>>

\* run_metrics, sequential: results = {}; metric_items = list(METRICS.items()).
RunMetricsStart ==
    /\ epc = "idle"
    /\ ~returned["seq"].done
    /\ epc' = "seq"
    /\ metric_items' = METRICS
    /\ results' = NoResults
    /\ invoked' = NoCalls
    /\ UNCHANGED <<METRICS, tasks, returned, NotEngine>>

\* One iteration of `for name, fn in metric_items`.
RunMetricsStep ==
    /\ epc = "seq"
    /\ metric_items # <<>>
    /\ \E dt_ms \in Latencies :
        results' = SetItem(results, Head(metric_items)[1],
                           _safe_run(Head(metric_items)[1], Head(metric_items)[2], dt_ms))
    /\ invoked' = Called(invoked, Head(metric_items)[1])
    /\ metric_items' = Tail(metric_items)
    /\ UNCHANGED <<METRICS, epc, tasks, returned, NotEngine>>

\* The loop is over: return results.  The call's locals are gone.
RunMetricsReturn ==
    /\ epc = "seq"
    /\ metric_items = <<>>
    /\ returned' = [returned EXCEPT !["seq"] =
                        [done |-> TRUE, out |-> Observed(results), calls |-> invoked]]
    /\ epc' = "idle"
    /\ results' = NoResults
    /\ invoked' = NoCalls
    /\ UNCHANGED <<METRICS, metric_items, tasks, NotEngine>>

\* Parallel mode: one task per registered metric is submitted to the pool.
ParallelSubmit ==
    /\ epc = "idle"
    /\ ~returned["par"].done
    /\ epc' = "par"
    /\ metric_items' = METRICS
    /\ results' = NoResults
    /\ tasks' = [k \in RegisteredNames |-> "queued"]
    /\ invoked' = NoCalls
    /\ UNCHANGED <<METRICS, returned, NotEngine>>

\* A free worker takes a queued task.
ParallelTaskStart ==
    /\ epc = "par"
    /\ Cardinality({k \in DOMAIN tasks : tasks[k] = "running"}) < MaxWorkers
    /\ \E k \in DOMAIN tasks :
        /\ tasks[k] = "queued"
        /\ tasks' = [tasks EXCEPT ![k] = "running"]
    /\ UNCHANGED <<METRICS, epc, metric_items, results, invoked, returned, NotEngine>>

FnOf(items, name) == (CHOOSE i \in 1..Len(items) : items[i][1] = name)

\* A running task completes: its future holds _safe_run's result, written to
\* the task's own slot of the mapping.
ParallelTaskFinish ==
    /\ epc = "par"
    /\ \E k \in DOMAIN tasks, dt_ms \in Latencies :
        /\ tasks[k] = "running"
        /\ results' = [n \in DOMAIN results \cup {k} |->
                          IF n = k THEN _safe_run(k, metric_items[FnOf(metric_items, k)][2], dt_ms)
                          ELSE results[n]]
        /\ tasks' = [n \in DOMAIN tasks \ {k} |-> tasks[n]]
        /\ invoked' = Called(invoked, k)
    /\ UNCHANGED <<METRICS, epc, metric_items, returned, NotEngine>>

\* Every task has completed: the pool is shut down and the mapping returned.
ParallelJoin ==
    /\ epc = "par"
    /\ DOMAIN tasks = {}
    /\ returned' = [returned EXCEPT !["par"] =
                        [done |-> TRUE, out |-> Observed(results), calls |-> invoked]]
    /\ epc' = "idle"
    /\ metric_items' = <<>>
    /\ results' = NoResults
    /\ invoked' = NoCalls
    /\ UNCHANGED <<METRICS, tasks, NotEngine>>

EngineNext ==
    \/ register
    \/ ImportsDone
    \/ RunMetricsStart
    \/ RunMetricsStep
    \/ RunMetricsReturn
    \/ ParallelSubmit
    \/ ParallelTaskStart
    \/ ParallelTaskFinish
    \/ ParallelJoin


-----------------------------------------------------------------------------
(* The evaluator and the run_metrics it imports (src/metrics_engine.py) *)

\* The names run_metrics uses when no include is given.
DefaultNames == {"ramp_up_time", "bus_factor"}

NoInclude == [none |-> TRUE, names |-> {}]

Include(S) == [none |-> FALSE, names |-> S]

IncludeArgs == {NoInclude} \cup {Include(S) : S \in SUBSET {"ramp_up_time", "bus_factor", "license"}}

\* run_metrics(context, include): {name: 1.0 for name in (include or [...])}.
\* `include or default` takes the default for None and for an empty collection.
run_metrics(inc) ==
    LET names == IF inc.none \/ inc.names = {} THEN DefaultNames ELSE inc.names
    IN  [n \in names |-> Float(100)]

\* flatten_to_ndjson(results): {name: val for name, val in results.items()}.
flatten_to_ndjson(res) == [n \in DOMAIN res |-> res[n]]

\* The lines of an input file: empty, of spaces only, a comment, a line whose
\* "#" follows a space, and two URLs.
InputLines ==
    {"", "   ", "# models", " # note", "https://huggingface.co/a/b",
     "https://huggingface.co/c/d"}

RECURSIVE SeqsUpTo(_, _)
SeqsUpTo(S, n) ==
    IF n = 0 THEN {<<>>}
    ELSE LET shorter == SeqsUpTo(S, n - 1)
         IN  shorter \cup {Append(q, x) : q \in shorter, x \in S}

\* url.strip() is empty
IsBlank(l) == l \in {"", "   "}

\* Variant: no line is taken for a comment.
StartsWithHash_mut(l) == FALSE

\* url.startswith("#")
StartsWithHash(l) == l = "# models"

NoCall == [k \in {} |-> Float(0)]

EvalInit ==
    /\ lines \in SeqsUpTo(InputLines, MaxLines)
    /\ line_no = 0
    /\ stdout = <<>>
    /\ include = NoInclude
    /\ call_out = NoCall
    /\ vpc = "ready"

\* The evaluator is not in use.
EvalOff ==
    /\ lines = <<>>
    /\ line_no = 0
    /\ stdout = <<>>
    /\ include = NoInclude
    /\ call_out = NoCall
    /\ vpc = "off"

\* A direct call run_metrics(ctx, include=inc).
CallRunMetrics ==
    /\ vpc = "ready"
    /\ call_out = NoCall
    /\ \E inc \in IncludeArgs :
        /\ include' = inc
        /\ call_out' = run_metrics(inc)
    /\ UNCHANGED <<lines, line_no, stdout, vpc, NotEval>>

\* main(path): the file is read and split into lines.
MainStart ==
    /\ vpc = "ready"
    /\ vpc' = "main"
    /\ UNCHANGED <<lines, line_no, stdout, include, call_out, NotEval>>

\* One iteration of `for url in urls` that hits `continue`.
MainSkipLine ==
    /\ vpc = "main"
    /\ line_no < Len(lines)
    /\ IsBlank(lines[line_no + 1]) \/ StartsWithHash(lines[line_no + 1])
    /\ line_no' = line_no + 1
    /\ UNCHANGED <<lines, stdout, include, call_out, vpc, NotEval>>

\* One iteration that builds and prints a record.
MainEmitRecord ==
    /\ vpc = "main"
    /\ line_no < Len(lines)
    /\ ~(IsBlank(lines[line_no + 1]) \/ StartsWithHash(lines[line_no + 1]))
    /\ stdout' = Append(stdout, [name |-> lines[line_no + 1], category |-> "MODEL",
                                 fields |-> flatten_to_ndjson(run_metrics(NoInclude))])
    /\ line_no' = line_no + 1
    /\ UNCHANGED <<lines, include, call_out, vpc, NotEval>>

\* The loop is over.
MainExit ==
    /\ vpc = "main"
    /\ line_no = Len(lines)
    /\ vpc' = "exit"
    /\ UNCHANGED <<lines, line_no, stdout, include, call_out, NotEval>>

EvalNext ==
    \/ CallRunMetrics
    \/ MainStart
    \/ MainSkipLine
    \/ MainEmitRecord
    \/ MainExit

-----------------------------------------------------------------------------
(* NetScore.evaluate (metrics/net_score.py) *)

\* Weights are carried in hundredths, metric values and means in 1/400 (a
\* mean of up to four hundredths is then a whole number), self.value in
\* 1/40000.  Sums and products are those of the decimal numbers the literals
\* denote.

\* Variant: the ramp-up weight is 0.10.
METRIC_WEIGHTS_mut ==
    [license |-> 20, ramp_up_time |-> 10, bus_factor |-> 15,
     dataset_and_code_score |-> 10, dataset_quality |-> 10, code_quality |-> 10,
     performance_claims |-> 10, size |-> 10]

\* METRIC_WEIGHTS, in hundredths.
METRIC_WEIGHTS ==
    [license |-> 20, ramp_up_time |-> 15, bus_factor |-> 15,
     dataset_and_code_score |-> 10, dataset_quality |-> 10, code_quality |-> 10,
     performance_claims |-> 10, size |-> 10]

\* A float of hundredths, in 1/400.
Quarters(f) == 4 * f.h

RECURSIVE SumOf(_)
SumOf(d) ==
    IF DOMAIN d = {} THEN 0
    ELSE LET k == CHOOSE k \in DOMAIN d : TRUE
         IN  d[k].h + SumOf([j \in DOMAIN d \ {k} |-> d[j]])

\* statistics.mean(d.values()) of a mapping with 1, 2 or 4 entries, in 1/400.
mean(d) == (4 * SumOf(d)) \div Cardinality(DOMAIN d)

\* A Metric object as evaluate reads it: its name and its value.
Metric(name, v) == [name |-> name, value |-> v]

Devices == {"raspberry_pi", "jetson_nano", "desktop_pc", "aws_server"}

\* Size mappings: every device 1.0; two devices, 0.5 and 1.0; no device.
FullSize == [k \in Devices |-> Float(100)]

MixedSize == [k \in {"raspberry_pi", "aws_server"} |->
                 IF k = "raspberry_pi" THEN Float(50) ELSE Float(100)]

\* Metric values: floats in [0,1], a value that is neither a float nor a
\* mapping (the int 1), and the size mappings.
MetricValues ==
    {ScalarValue(Float(0)), ScalarValue(Float(50)), ScalarValue(Float(100)),
     OtherValue, DictValue(FullSize), DictValue(MixedSize), DictValue(EmptyDict)}

\* Names of the metrics met beyond a full record: three of the table and one
\* that the table does not have.
ExtraNames == {"license", "ramp_up_time", "size", "availability"}

\* license 1.0, the six other scalar metrics 0.5, size 1.0 on every device.
Example ==
    <<Metric("license", ScalarValue(Float(100))),
      Metric("ramp_up_time", ScalarValue(Float(50))),
      Metric("bus_factor", ScalarValue(Float(50))),
      Metric("dataset_and_code_score", ScalarValue(Float(50))),
      Metric("dataset_quality", ScalarValue(Float(50))),
      Metric("code_quality", ScalarValue(Float(50))),
      Metric("performance_claims", ScalarValue(Float(50))),
      Metric("size", DictValue(FullSize))>>

\* Every metric of the table at 1.0.
AllOnes ==
    [i \in 1..Len(Example) |->
        IF Example[i].name = "size" THEN Example[i]
        ELSE Metric(Example[i].name, ScalarValue(Float(100)))]

\* The lists evaluate is called with: nothing or a full record, then up to
\* MaxInputs further metrics.
InputLists ==
    {p \o e : p \in {<<>>, Example, AllOnes},
              e \in SeqsUpTo({Metric(n, v) : n \in ExtraNames, v \in MetricValues}, MaxInputs)}

\* evaluate(metrics) has been entered: self.value = 0.
NetInit ==
    /\ metrics \in InputLists
    /\ mi = 0
    /\ self_value = 0
    /\ self_latency_ms = 0
    /\ npc = "loop"
    /\ nerr = ""

\* No aggregation is in use.
NetOff ==
    /\ metrics = <<>>
    /\ mi = 0
    /\ self_value = 0
    /\ self_latency_ms = 0
    /\ npc = "off"
    /\ nerr = ""

\* The loop variable `metric` of the next iteration.
metric == metrics[mi + 1]

\* metric.name == "size" and isinstance(metric.value, dict)
IsSizeDict(mt) == mt.name = "size" /\ mt.value.shape = "dict"

\* isinstance(metric.value, float)
IsFloat(mt) == mt.value.shape = "float"

\* The size branch: self.value += METRIC_WEIGHTS["size"] * mean(values); continue.
EvaluateSize ==
    /\ npc = "loop"
    /\ mi < Len(metrics)
    /\ IsSizeDict(metric)
    /\ DOMAIN metric.value.d # {}
    /\ self_value' = self_value + METRIC_WEIGHTS[metric.name] * mean(metric.value.d)
    /\ mi' = mi + 1
    /\ UNCHANGED <<metrics, self_latency_ms, npc, nerr, NotNet>>

\* The size branch on an empty mapping: statistics.mean raises.
EvaluateSizeEmpty ==
    /\ npc = "loop"
    /\ mi < Len(metrics)
    /\ IsSizeDict(metric)
    /\ DOMAIN metric.value.d = {}
    /\ npc' = "raised"
    /\ nerr' = "StatisticsError"
    /\ UNCHANGED <<metrics, mi, self_value, self_latency_ms, NotNet>>

\* The float branch: self.value += METRIC_WEIGHTS[metric.name] * metric.value.
EvaluateFloat ==
    /\ npc = "loop"
    /\ mi < Len(metrics)
    /\ ~IsSizeDict(metric)
    /\ IsFloat(metric)
    /\ metric.name \in DOMAIN METRIC_WEIGHTS
    /\ self_value' = self_value + METRIC_WEIGHTS[metric.name] * Quarters(metric.value.f)
    /\ mi' = mi + 1
    /\ UNCHANGED <<metrics, self_latency_ms, npc, nerr, NotNet>>

\* The float branch on a name the table does not have: the subscript raises.
EvaluateKeyError ==
    /\ npc = "loop"
    /\ mi < Len(metrics)
    /\ ~IsSizeDict(metric)
    /\ IsFloat(metric)
    /\ metric.name \notin DOMAIN METRIC_WEIGHTS
    /\ npc' = "raised"
    /\ nerr' = "KeyError"
    /\ UNCHANGED <<metrics, mi, self_value, self_latency_ms, NotNet>>

\* Neither test holds: the iteration adds nothing.
EvaluateSkip ==
    /\ npc = "loop"
    /\ mi < Len(metrics)
    /\ ~IsSizeDict(metric)
    /\ ~IsFloat(metric)
    /\ mi' = mi + 1
    /\ UNCHANGED <<metrics, self_value, self_latency_ms, npc, nerr, NotNet>>

\* The loop is over: self.latency_ms is set and evaluate returns.
EvaluateReturn ==
    /\ npc = "loop"
    /\ mi = Len(metrics)
    /\ self_latency_ms' \in Latencies
    /\ npc' = "done"
    /\ UNCHANGED <<metrics, mi, self_value, nerr, NotNet>>

NetNext ==
    \/ EvaluateSize
    \/ EvaluateSizeEmpty
    \/ EvaluateFloat
    \/ EvaluateKeyError
    \/ EvaluateSkip
    \/ EvaluateReturn

-----------------------------------------------------------------------------
(* Fetch scopes: open_codebase and the fetchers' __enter__ / __exit__          *)
(* (adapters/code_fetchers.py, adapters/hf_fetchers.py,                        *)
(* adapters/github_fetcher.py)                                                 *)

\* Python's None where a string is optional.
None == "<None>"

\* x or y on optional strings.
Or(x, y) == IF x = None \/ x = "" THEN y ELSE x

RECURSIVE Join(_)
\* "/".join(segs)
Join(segs) ==
    IF segs = <<>> THEN ""
    ELSE IF Len(segs) = 1 THEN segs[1]
    ELSE segs[1] \o "/" \o Join(Tail(segs))

\* A URL as urlparse reads it: its netloc, and its path split at "/".
\* tree_ref is the <ref> of a URL written as <repo>/tree/<ref>, None otherwise.
Url(netloc, path) == [netloc |-> netloc, path |-> path, tree_ref |-> None]

TreeUrl(netloc, repo, refsegs) ==
    [netloc |-> netloc, path |-> repo \o <<"tree">> \o refsegs, tree_ref |-> Join(refsegs)]

\* The URLs open_codebase is called with.
CodebaseUrls ==
    {Url("github.com", <<"acme", "repo">>),
     Url("github.com", <<"acme", "", "repo">>),
     Url("github.com", <<"acme">>),
     Url("github.com", <<>>),
     Url("notgithub.com", <<"acme", "repo">>),
     Url("gitlab.com", <<"group", "subgroup", "proj">>),
     Url("gitlab.com", <<>>),
     Url("huggingface.co", <<"spaces", "acme", "demo">>),
     Url("huggingface.co", <<"acme", "model">>),
     Url("bitbucket.org", <<"team", "repo">>),
     TreeUrl("GitHub.com", <<"acme", "repo">>, <<"dev">>),
     TreeUrl("github.com", <<"acme", "repo">>, <<"feature", "login">>),
     TreeUrl("gitlab.com", <<"group", "proj", "-">>, <<"dev">>),
     Url("github.com", <<"acme", "repo", "blob", "v1", "README.md">>)}

\* str.lower() on the netlocs above.
Lower(s) == IF s = "GitHub.com" THEN "github.com" ELSE s

\* host.endswith(suffix) on the hosts above.
EndsWith(host, suffix) == host = suffix \/ host = "not" \o suffix

\* _parse(url): the lower-cased netloc and the non-empty path segments.
_parse(u) == [host |-> Lower(u.netloc), parts |-> SelectSeq(u.path, LAMBDA x : x # "")]

_is_hf_space(host, parts) ==
    host = "huggingface.co" /\ Len(parts) >= 3 /\ parts[1] = "spaces"

\* Variant: a revision in the URL is not looked for.
_extract_rev_mut(parts) == None

\* _extract_rev(parts): the segment after the first tree, blob or resolve that
\* has a successor.
_extract_rev(parts) ==
    LET hits == {i \in 1..(Len(parts) - 1) : parts[i] \in {"tree", "blob", "resolve"}}
    IN  IF hits = {} THEN None
        ELSE parts[(CHOOSE i \in hits : \A j \in hits : i <= j) + 1]

\* The fields of a context manager object.  _tmp_dir is whether the attribute
\* holds a TemporaryDirectory.
Fetcher(cls, owner, repo, rev, need_history, token) ==
    [cls |-> cls, owner |-> owner, repo |-> repo, ref |-> rev,
     need_history |-> need_history, token |-> token, _tmp_dir |-> FALSE]

NoFetcher == Fetcher("", "", "", None, FALSE, None)

\* The exceptions a caller can get.
AppError(code, u) == [type |-> "AppError", code |-> code, url |-> u]

Exception(type) == [type |-> type, code |-> "", url |-> ""]

NoError == Exception("")

\* The exception the body of the with statement raises.
E == Exception("ValueError")

\* open_codebase(url, need_history=, ref=, token=): the context manager it
\* returns, or the exception it raises.  parts[0] and parts[1] raise IndexError
\* on a path that is too short.
open_codebase(c) ==
    LET host == _parse(c.url).host
        parts == _parse(c.url).parts
    IN  IF _is_hf_space(host, parts)
        THEN [raises |-> NoError,
              returns |-> Fetcher("_HFSpaceFetcher", parts[2], parts[3],
                                  _extract_rev(parts), FALSE, None)]
        ELSE IF EndsWith(host, "github.com")
        THEN IF Len(parts) < 2
             THEN [raises |-> Exception("IndexError"), returns |-> NoFetcher]
             ELSE [raises |-> NoError,
                   returns |-> Fetcher("_GitHubCodeFetcher", parts[1], parts[2],
                                       Or(Or(_extract_rev(parts), c.ref), "main"),
                                       c.need_history, c.token)]
        ELSE IF EndsWith(host, "gitlab.com")
        THEN IF Len(parts) < 1
             THEN [raises |-> Exception("IndexError"), returns |-> NoFetcher]
             ELSE [raises |-> NoError,
                   returns |-> Fetcher("_GitLabCodeFetcher", "", parts[1],
                                       Or(Or(_extract_rev(parts), c.ref), "main"),
                                       c.need_history, c.token)]
        ELSE [raises |-> AppError("UNSUPPORTED_URL", ""), returns |-> NoFetcher]

\* The classes whose __enter__ downloads an archive with requests.get.
ArchiveClasses == {"_GitHubCodeFetcher", "_GitLabCodeFetcher", "GitHubCodeFetcher"}

\* The classes of code_fetchers.py that clone when need_history is set.
CloneClasses == {"_GitHubCodeFetcher", "_GitLabCodeFetcher"}

\* The classes whose __enter__ calls snapshot_download.
SnapshotClasses == {"_HFSpaceFetcher", "HFModelFetcher", "HFDatasetFetcher"}

\* The classes whose __exit__ begins with `if exc_value: raise exc_value`.
ReraisingClasses ==
    {"_HFSpaceFetcher", "HFModelFetcher", "HFDatasetFetcher", "GitHubCodeFetcher"}

GITHUB_API == "https://api/github.com"

\* The url of the archive download in __enter__.
ArchiveUrl(f) ==
    CASE f.cls = "_GitHubCodeFetcher" ->
            "https://api.github.com/repos/" \o f.owner \o "/" \o f.repo
                \o "/tarball/" \o f.ref
      [] f.cls = "_GitLabCodeFetcher" ->
            "https://gitlab.com/" \o f.repo \o "/-/archive/" \o f.ref
                \o "/" \o f.repo \o "-" \o f.ref \o ".tar.gz"
      [] f.cls = "GitHubCodeFetcher" ->
            GITHUB_API \o "/repos/" \o f.owner \o "/" \o f.repo \o "/tarball/" \o f.ref

\* Variant: every provider gets the token as a bearer token.
Headers_mut(f) ==
    [h \in {"Accept"} \cup (IF f.token = None THEN {} ELSE {"Authorization"}) |->
        IF h = "Accept" THEN "application/vnd.github+json" ELSE "Bearer " \o f.token]

\* The headers of the archive download.
Headers(f) ==
    CASE f.cls = "_GitLabCodeFetcher" ->
            IF f.token = None THEN [h \in {} |-> ""]
            ELSE [h \in {"PRIVATE-TOKEN"} |-> f.token]
      [] OTHER ->
            [h \in {"Accept"} \cup (IF f.token = None THEN {} ELSE {"Authorization"}) |->
                IF h = "Accept" THEN "application/vnd.github+json"
                ELSE "Bearer " \o f.token]

MODEL_ALLOW == <<"README.md", "README.*", "config.json", "model_index.json">>

DATASET_ALLOW == <<"README.md", "README.*", "dataset_info.json", "data/*">>

SPACE_ALLOW == <<"app.*", "requirements*.txt", "runtime.txt", "*.py", "README.*">>

MAX_FILE_BYTES == 256 * 1024

\* The repo_type each snapshot fetcher's __init__ hands to the base class.
RepoType(cls) ==
    CASE cls = "_HFSpaceFetcher" -> "space"
      [] cls = "HFModelFetcher" -> "model"
      [] cls = "HFDatasetFetcher" -> "model"

\* The allow_patterns each snapshot fetcher's __init__ hands to the base class.
AllowPatterns(cls) ==
    CASE cls = "_HFSpaceFetcher" -> SPACE_ALLOW
      [] cls = "HFModelFetcher" -> MODEL_ALLOW
      [] cls = "HFDatasetFetcher" -> DATASET_ALLOW

\* The keyword arguments of snapshot_download in __enter__.
SnapshotCall(f) ==
    [repo_id |-> f.owner \o "/" \o f.repo, repo_type |-> RepoType(f.cls),
     revision |-> f.ref, allow_patterns |-> AllowPatterns(f.cls)]

NoFiles == [p \in {} |-> 0]

\* What snapshot_download can leave under local_dir: any of these files, each
\* just under, at, or just over MAX_FILE_BYTES.
SnapshotFiles ==
    UNION {[ps -> {MAX_FILE_BYTES - 1, MAX_FILE_BYTES, MAX_FILE_BYTES + 1}] :
              ps \in SUBSET {"README.md", "data/shard.bin"}}

\* Variant: a file of exactly MAX_FILE_BYTES is removed too.
TooLarge_mut(size) == size >= MAX_FILE_BYTES

\* p.stat().st_size > MAX_FILE_BYTES
TooLarge(size) == size > MAX_FILE_BYTES

\* The loop over local_path.rglob("*"): every regular file that is too large
\* is unlinked.
Prune(files) == [p \in {q \in DOMAIN files : ~TooLarge(files[q])} |-> files[p]]

\* The statuses a download ends with, redirects followed.
ArchiveStatuses == {200, 403, 404, 500}

\* Variant: the error of a failed download carries no url.
_extract_tarball_error_mut(u, status) ==
    IF status = 0 THEN AppError("NETWORK_ERROR", "") ELSE AppError("HTTP_ERROR", "")

\* The except clauses of the download: AppError(HTTP_ERROR, ..., context={"url":
\* url}) on an HTTPError, AppError(NETWORK_ERROR, ..., context={"url": url}) on
\* any other RequestException (status 0: no response).
_extract_tarball_error(u, status) ==
    IF status = 0 THEN AppError("NETWORK_ERROR", u) ELSE AppError("HTTP_ERROR", u)

\* A top-level entry of an unpacked archive.
Dir(name) == [name |-> name, is_dir |-> TRUE]

File(name) == [name |-> name, is_dir |-> FALSE]

\* What an archive can hold at its top level: nothing, one directory, two
\* directories, a directory and a file, a file.
Archives ==
    {{}, {Dir("repo-main")}, {Dir("repo-main"), Dir("docs")},
     {Dir("repo-main"), File("README.md")}, {File("README.md")}}

\* dirs = [p for p in root.iterdir() if p.is_dir()]
Dirs(entries) == {e.name : e \in {x \in entries : x.is_dir}}

\* _top_dir(root): dirs[0] if dirs else root.  iterdir() yields the entries in
\* the order of the file system, so dirs[0] is any of the directories.
_top_dir(entries) == IF Dirs(entries) # {} THEN Dirs(entries) ELSE {"."}

\* The roots __enter__ can give the view: _top_dir(root) in code_fetchers.py;
\* `[top] = [p for p in root.iterdir() if p.is_dir()]` in github_fetcher.py,
\* which has a value only when there is exactly one directory.
RootOf(cls, entries) ==
    IF cls = "GitHubCodeFetcher"
    THEN IF Cardinality(Dirs(entries)) = 1 THEN Dirs(entries) ELSE {}
    ELSE _top_dir(entries)

\* One requests.get of the history.
Get(u, headers, status) == [url |-> u, headers |-> headers, status |-> status]

\* The calls that make a context manager: open_codebase, and the constructors
\* of the model and dataset snapshot fetchers and of github_fetcher's fetcher.
Calls ==
    [fn : {"open_codebase"}, url : CodebaseUrls, need_history : BOOLEAN,
     ref : {None, "v2"}, token : {None, "t0k"}]
    \cup [fn : {"HFModelFetcher", "HFDatasetFetcher", "GitHubCodeFetcher"},
          url : {Url("", <<>>)},
          need_history : {FALSE}, ref : {None, "v2"}, token : {None, "t0k"}]

FetchInit ==
    /\ call \in Calls
    /\ fetcher = NoFetcher
    /\ tmp_dir = "none"
    /\ http_gets = <<>>
    /\ body = "not_run"
    /\ cleanups = 0
    /\ observed = NoError
    /\ snapshot_calls = <<>>
    /\ view_files = NoFiles
    /\ extracted = {}
    /\ _root = None
    /\ fpc = "call"

\* No fetch scope is in use.
FetchOff ==
    /\ call = [fn |-> "", url |-> Url("", <<>>), need_history |-> FALSE,
               ref |-> None, token |-> None]
    /\ fetcher = NoFetcher
    /\ tmp_dir = "none"
    /\ http_gets = <<>>
    /\ body = "not_run"
    /\ cleanups = 0
    /\ observed = NoError
    /\ snapshot_calls = <<>>
    /\ view_files = NoFiles
    /\ extracted = {}
    /\ _root = None
    /\ fpc = "off"

\* open_codebase returns a context manager.
OpenCodebaseReturns ==
    /\ fpc = "call"
    /\ call.fn = "open_codebase"
    /\ open_codebase(call).raises = NoError
    /\ fetcher' = open_codebase(call).returns
    /\ fpc' = "opened"
    /\ UNCHANGED <<call, tmp_dir, http_gets, body, cleanups, observed, snapshot_calls, view_files, extracted, _root, NotFetch>>

\* open_codebase raises: the with statement is never entered.
OpenCodebaseRaises ==
    /\ fpc = "call"
    /\ call.fn = "open_codebase"
    /\ open_codebase(call).raises # NoError
    /\ observed' = open_codebase(call).raises
    /\ fpc' = "failed"
    /\ UNCHANGED <<call, fetcher, tmp_dir, http_gets, body, cleanups, snapshot_calls, view_files, extracted, _root, NotFetch>>

\* HFModelFetcher("acme/model", revision), HFDatasetFetcher("acme/data",
\* revision) or GitHubCodeFetcher("acme", "repo", ref, token): __init__ stores
\* the arguments, self.ref = ref or "main" in the last.
Construct ==
    /\ fpc = "call"
    /\ call.fn # "open_codebase"
    /\ fetcher' = CASE call.fn = "HFModelFetcher" ->
                        Fetcher("HFModelFetcher", "acme", "model", call.ref, FALSE, None)
                    [] call.fn = "HFDatasetFetcher" ->
                        Fetcher("HFDatasetFetcher", "acme", "data", call.ref, FALSE, None)
                    [] call.fn = "GitHubCodeFetcher" ->
                        Fetcher("GitHubCodeFetcher", "acme", "repo", Or(call.ref, "main"),
                                FALSE, call.token)
    /\ fpc' = "opened"
    /\ UNCHANGED <<call, tmp_dir, http_gets, body, cleanups, observed, snapshot_calls, view_files, extracted, _root, NotFetch>>

\* __enter__ downloads an archive.
Downloads(f) == f.cls \in ArchiveClasses /\ ~(f.cls \in CloneClasses /\ f.need_history)

\* The first statement of every __enter__: self._tmp_dir = TemporaryDirectory().
MakeTmpDir ==
    /\ tmp_dir' = "exists"
    /\ fetcher' = [fetcher EXCEPT !._tmp_dir = TRUE]

\* __enter__ with need_history: porcelain.clone (and checkout) succeed.
EnterClone ==
    /\ fpc = "opened"
    /\ fetcher.cls \in CloneClasses /\ fetcher.need_history
    /\ MakeTmpDir
    /\ _root' = "repo"
    /\ fpc' = "entered"
    /\ UNCHANGED <<call, http_gets, body, cleanups, observed, snapshot_calls, view_files, extracted, NotFetch>>

\* __enter__ with need_history: porcelain.clone or checkout raises.
EnterCloneFails ==
    /\ fpc = "opened"
    /\ fetcher.cls \in CloneClasses /\ fetcher.need_history
    /\ MakeTmpDir
    /\ observed' = Exception("GitProtocolError")
    /\ fpc' = "failed"
    /\ UNCHANGED <<call, http_gets, body, cleanups, snapshot_calls, view_files, extracted, _root, NotFetch>>

\* __enter__ of an archive fetcher: the download succeeds, the archive is
\* unpacked and the view's root is chosen.
EnterArchive ==
    /\ fpc = "opened"
    /\ Downloads(fetcher)
    /\ MakeTmpDir
    /\ http_gets' = Append(http_gets, Get(ArchiveUrl(fetcher), Headers(fetcher), 200))
    /\ \E entries \in Archives :
        /\ extracted' = entries
        /\ _root' \in RootOf(fetcher.cls, entries)
    /\ fpc' = "entered"
    /\ UNCHANGED <<call, body, cleanups, observed, snapshot_calls, view_files, NotFetch>>

\* __enter__ of github_fetcher's fetcher: the archive is unpacked and
\* `[top] = [...]` finds no directory or more than one: ValueError.
EnterArchiveNoTop ==
    /\ fpc = "opened"
    /\ Downloads(fetcher)
    /\ MakeTmpDir
    /\ http_gets' = Append(http_gets, Get(ArchiveUrl(fetcher), Headers(fetcher), 200))
    /\ \E entries \in Archives :
        /\ extracted' = entries
        /\ RootOf(fetcher.cls, entries) = {}
    /\ observed' = Exception("ValueError")
    /\ fpc' = "failed"
    /\ UNCHANGED <<call, body, cleanups, snapshot_calls, view_files, _root, NotFetch>>

\* The download succeeds with a body that tarfile cannot read.
EnterArchiveCorrupt ==
    /\ fpc = "opened"
    /\ Downloads(fetcher)
    /\ MakeTmpDir
    /\ http_gets' = Append(http_gets, Get(ArchiveUrl(fetcher), Headers(fetcher), 200))
    /\ observed' = Exception("ReadError")
    /\ fpc' = "failed"
    /\ UNCHANGED <<call, body, cleanups, snapshot_calls, view_files, extracted, _root, NotFetch>>

\* raise_for_status raises HTTPError: the download's except clause raises
\* AppError(HTTP_ERROR).
EnterHttpError ==
    /\ fpc = "opened"
    /\ Downloads(fetcher)
    /\ MakeTmpDir
    /\ \E status \in ArchiveStatuses :
        /\ raise_for_status(status)
        /\ http_gets' = Append(http_gets, Get(ArchiveUrl(fetcher), Headers(fetcher), status))
        /\ observed' = _extract_tarball_error(ArchiveUrl(fetcher), status)
    /\ fpc' = "failed"
    /\ UNCHANGED <<call, body, cleanups, snapshot_calls, view_files, extracted, _root, NotFetch>>

\* requests.get raises a RequestException without a response: AppError(NETWORK_ERROR).
EnterNetworkError ==
    /\ fpc = "opened"
    /\ Downloads(fetcher)
    /\ MakeTmpDir
    /\ http_gets' = Append(http_gets, Get(ArchiveUrl(fetcher), Headers(fetcher), 0))
    /\ observed' = _extract_tarball_error(ArchiveUrl(fetcher), 0)
    /\ fpc' = "failed"
    /\ UNCHANGED <<call, body, cleanups, snapshot_calls, view_files, extracted, _root, NotFetch>>

\* __enter__ of a snapshot fetcher: snapshot_download returns, then the files
\* over MAX_FILE_BYTES are removed.
EnterSnapshot ==
    /\ fpc = "opened"
    /\ fetcher.cls \in SnapshotClasses
    /\ MakeTmpDir
    /\ \E files \in SnapshotFiles :
        /\ snapshot_calls' = Append(snapshot_calls, [kwargs |-> SnapshotCall(fetcher),
                                                     files |-> files])
        /\ view_files' = Prune(files)
    /\ fpc' = "entered"
    /\ UNCHANGED <<call, http_gets, body, cleanups, observed, extracted, _root, NotFetch>>

\* snapshot_download raises.
EnterSnapshotFails ==
    /\ fpc = "opened"
    /\ fetcher.cls \in SnapshotClasses
    /\ MakeTmpDir
    /\ observed' = Exception("HfHubHTTPError")
    /\ snapshot_calls' = Append(snapshot_calls, [kwargs |-> SnapshotCall(fetcher),
                                                 files |-> NoFiles])
    /\ fpc' = "failed"
    /\ UNCHANGED <<call, http_gets, body, cleanups, view_files, extracted, _root, NotFetch>>

\* The body of the with statement runs to its end.
BodyReturns ==
    /\ fpc = "entered"
    /\ body' = "returned"
    /\ fpc' = "body_done"
    /\ UNCHANGED <<call, fetcher, tmp_dir, http_gets, cleanups, observed, snapshot_calls, view_files, extracted, _root, NotFetch>>

\* The body of the with statement raises E.
BodyRaises ==
    /\ fpc = "entered"
    /\ body' = "raised"
    /\ fpc' = "body_done"
    /\ UNCHANGED <<call, fetcher, tmp_dir, http_gets, cleanups, observed, snapshot_calls, view_files, extracted, _root, NotFetch>>

\* __exit__ of hf_fetchers.py and github_fetcher.py with an exception:
\* `if exc_value: raise exc_value`, before the cleanup.
Reraises == fetcher.cls \in ReraisingClasses /\ body = "raised"

ExitReraise ==
    /\ fpc = "body_done"
    /\ Reraises
    /\ observed' = E
    /\ fpc' = "exited"
    /\ UNCHANGED <<call, fetcher, tmp_dir, http_gets, body, cleanups, snapshot_calls, view_files, extracted, _root, NotFetch>>

\* __exit__: self._tmp_dir.cleanup() removes the directory; the finally clause
\* unsets the fields; None is returned, so an exception of the body goes on.
ExitCleanup ==
    /\ fpc = "body_done"
    /\ ~Reraises
    /\ cleanups' = cleanups + 1
    /\ tmp_dir' = "removed"
    /\ fetcher' = [fetcher EXCEPT !._tmp_dir = FALSE]
    /\ observed' = IF body = "raised" THEN E ELSE NoError
    /\ fpc' = "exited"
    /\ UNCHANGED <<call, http_gets, body, snapshot_calls, view_files, extracted, _root, NotFetch>>

\* __exit__: self._tmp_dir.cleanup() raises OSError; the finally clause unsets
\* the fields and the OSError leaves __exit__.
ExitCleanupFails ==
    /\ fpc = "body_done"
    /\ ~Reraises
    /\ cleanups' = cleanups + 1
    /\ fetcher' = [fetcher EXCEPT !._tmp_dir = FALSE]
    /\ observed' = Exception("OSError")
    /\ fpc' = "exited"
    /\ UNCHANGED <<call, tmp_dir, http_gets, body, snapshot_calls, view_files, extracted, _root, NotFetch>>

\* The TemporaryDirectory object is garbage-collected some time after the with
\* statement is over: its finalizer removes a directory that is still there.
Finalize ==
    /\ fpc \in {"exited", "failed"}
    /\ tmp_dir = "exists"
    /\ tmp_dir' = "removed"
    /\ UNCHANGED <<call, fetcher, http_gets, body, cleanups, observed, fpc, snapshot_calls, view_files, extracted, _root, NotFetch>>

FetchNext ==
    \/ OpenCodebaseReturns
    \/ OpenCodebaseRaises
    \/ Construct
    \/ EnterClone
    \/ EnterCloneFails
    \/ EnterArchive
    \/ EnterArchiveNoTop
    \/ EnterArchiveCorrupt
    \/ EnterHttpError
    \/ EnterNetworkError
    \/ EnterSnapshot
    \/ EnterSnapshotFails
    \/ BodyReturns
    \/ BodyRaises
    \/ ExitReraise
    \/ ExitCleanup
    \/ ExitCleanupFails
    \/ Finalize

-----------------------------------------------------------------------------
(* Resources: ModelResource and CodeResource (resources/base_resource.py,     *)
(* resources/model_resource.py, resources/code_resource.py)                    *)

\* The url string of a Url.
UrlString(u) == "https://" \o u.netloc \o "/" \o Join(u.path)

\* The URLs resources are made with: a model, the same under a leading path
\* segment, a space, a GitHub and a GitLab repository, another host.
ResourceUrls ==
    {Url("huggingface.co", <<"acme", "model">>),
     Url("huggingface.co", <<"models", "acme", "model">>),
     Url("huggingface.co", <<"spaces", "acme", "demo">>),
     Url("github.com", <<"acme", "repo">>),
     Url("gitlab.com", <<"group", "proj">>),
     Url("bitbucket.org", <<"team", "repo">>)}

\* _hf_id_from_url: f"{parts[1]}/{parts[2]}" of the non-empty path segments;
\* IndexError when there are fewer than three.
_hf_id_from_url(u) ==
    LET parts == _parse(u).parts
    IN  IF Len(parts) < 3 THEN [raises |-> "IndexError", returns |-> None]
        ELSE [raises |-> "", returns |-> parts[2] \o "/" \o parts[3]]

\* "huggingface.co/spaces/" in self.url, on the URLs above.
_is_hf_space_url(u) ==
    u.netloc = "huggingface.co" /\ u.path # <<>> /\ u.path[1] = "spaces"

\* "github.com" in self.url and "gitlab.com" in self.url, on the URLs above.
InUrl(host, u) == u.netloc = host

\* Whether __init__ computes self._repo_id.
NeedsRepoId(cls, u) == cls = "ModelResource" \/ _is_hf_space_url(u)

\* What the metadata clients return: a mapping.
MetadataValues == {"{'id': 'a'}", "{}"}

\* The client call fetch_metadata makes for a resource: the method and its
\* argument, or no call for a code URL of no known host.
NoClientCall == [method |-> "", arg |-> ""]

ClientCallOf(r) ==
    IF r.cls = "ModelResource"
    THEN [method |-> "HFClient.get_model_metadata", arg |-> r._repo_id]
    ELSE IF _is_hf_space_url(r.url)
    THEN [method |-> "HFClient.get_space_metadata", arg |-> r._repo_id]
    ELSE IF InUrl("github.com", r.url)
    THEN [method |-> "GitHubClient.get_metadata", arg |-> UrlString(r.url)]
    ELSE IF InUrl("gitlab.com", r.url)
    THEN [method |-> "GitLabClient.get_metadata", arg |-> UrlString(r.url)]
    ELSE NoClientCall

\* Variant: the client is asked on every call.
MetadataIsNone_mut(md) == TRUE

\* self.metadata is None
MetadataIsNone(md) == md = None

\* What the client call gives: a mapping, or an exception.
ClientOutcomes ==
    [raised : {FALSE}, value : MetadataValues] \cup {[raised |-> TRUE, value |-> None]}

\* Variant: a failure is stored as an empty mapping.
Assigned_mut(old, o) == IF o.raised THEN "{}" ELSE o.value

\* self.metadata = <client call>: an exception of the call leaves the
\* assignment undone.
Assigned(old, o) == IF o.raised THEN old ELSE o.value

\* An exception with its code, its context url and its message.
Err(type, code, u, message) ==
    [type |-> type, code |-> code, url |-> u, message |-> message]

NoErr == Err("", "", "", "")

\* Variant: the view is read after the with statement is over.
ScopeEvents_mut(enters, exits, existss, reads) ==
    [i \in 1..enters |-> "enter"] \o [i \in 1..existss |-> "exists"]
        \o [i \in 1..exits |-> "exit"] \o [i \in 1..reads |-> "read"] \o <<"result">>

\* What a call does, in the order of its statements: the with statement enters
\* the scope, its body calls exists and then read, the scope exits at the end
\* of the with statement, and the return or raise comes after it.
ScopeEvents(enters, exits, existss, reads) ==
    [i \in 1..enters |-> "enter"] \o [i \in 1..existss |-> "exists"]
        \o [i \in 1..reads |-> "read"] \o [i \in 1..exits |-> "exit"] \o <<"result">>

\* One call on the resource: the operation and the file asked for, the client
\* call made, how many fetch scopes were entered and exited, how many times
\* the view's exists and read were called, and the value returned or the
\* exception raised.
LogEntry(op, filename, client, enters, exits, existss, reads, value, err) ==
    [op |-> op, filename |-> filename, client |-> client, enters |-> enters,
     exits |-> exits, exists |-> existss, reads |-> reads, value |-> value, err |-> err,
     events |-> ScopeEvents(enters, exits, existss, reads)]

\* The files asked for.
Filenames == {"README.md", "config.json"}

\* What view.read_text returns for a file that exists.
Texts == {"# readme", ""}

\* What view.read_json returns for a file that exists: the parsed document, a
\* mapping for an object and None for the document null.
JsonValues == {"{'a': 1}", "{}", None}

\* `if text is not None: return text`, else raise AppError(NOT_FOUND,
\* f"{filename} does not exist in this repo.", context={"url": self.url}).
ReturnOrNotFound(x, filename, u) ==
    IF x # None THEN [value |-> x, err |-> NoErr]
    ELSE [value |-> None,
          err |-> Err("AppError", "NOT_FOUND", UrlString(u),
                      filename \o " does not exist in this repo.")]

\* Whether entering the resource's fetch scope can be attempted: a model
\* resource builds HFModelFetcher(self._repo_id); a code resource calls
\* open_codebase(self.url), which raises for a url it does not route.
ScopeOpens(r) ==
    \/ r.cls = "ModelResource"
    \/ open_codebase([url |-> r.url, need_history |-> FALSE, ref |-> None,
                      token |-> None]).raises = NoError

ResInit ==
    /\ resource \in [cls : {"ModelResource", "CodeResource"}, url : ResourceUrls,
                _repo_id : {None}, metadata : {None}]
    /\ rlog = <<>>
    /\ rpc = "new"

\* No resource is in use.
ResOff ==
    /\ resource = [cls |-> "", url |-> Url("", <<>>), _repo_id |-> None, metadata |-> None]
    /\ rlog = <<>>
    /\ rpc = "off"

\* __init__: super().__init__(url=url), then self._repo_id where it is needed.
ResourceInit ==
    /\ rpc = "new"
    /\ ~(NeedsRepoId(resource.cls, resource.url) /\ _hf_id_from_url(resource.url).raises # "")
    /\ resource' = [resource EXCEPT !._repo_id =
                  IF NeedsRepoId(resource.cls, resource.url) THEN _hf_id_from_url(resource.url).returns
                  ELSE None]
    /\ rpc' = "ready"
    /\ UNCHANGED <<rlog, NotRes>>

\* __init__ raises the IndexError of _hf_id_from_url.
ResourceInitRaises ==
    /\ rpc = "new"
    /\ NeedsRepoId(resource.cls, resource.url)
    /\ _hf_id_from_url(resource.url).raises # ""
    /\ rlog' = Append(rlog, LogEntry("__init__", "", NoClientCall, 0, 0, 0, 0, None,
                                     Err(_hf_id_from_url(resource.url).raises, "", "", "")))
    /\ rpc' = "failed"
    /\ UNCHANGED <<resource, NotRes>>

CanCall == rpc = "ready" /\ Len(rlog) < MaxCalls

\* fetch_metadata with self.metadata set: it is returned as it is.
FetchMetadataCached ==
    /\ CanCall
    /\ ~MetadataIsNone(resource.metadata)
    /\ rlog' = Append(rlog, LogEntry("fetch_metadata", "", NoClientCall, 0, 0, 0, 0,
                                     resource.metadata, NoErr))
    /\ UNCHANGED <<resource, rpc, NotRes>>

\* fetch_metadata with self.metadata unset: the client is called and what it
\* returns is stored and returned.
FetchMetadataCall ==
    /\ CanCall
    /\ MetadataIsNone(resource.metadata)
    /\ ClientCallOf(resource) # NoClientCall
    /\ \E o \in ClientOutcomes :
        /\ ~o.raised
        /\ resource' = [resource EXCEPT !.metadata = Assigned(resource.metadata, o)]
        /\ rlog' = Append(rlog, LogEntry("fetch_metadata", "", ClientCallOf(resource),
                                         0, 0, 0, 0, Assigned(resource.metadata, o), NoErr))
    /\ UNCHANGED <<rpc, NotRes>>

\* fetch_metadata with self.metadata unset: the client call raises.
FetchMetadataRaises ==
    /\ CanCall
    /\ MetadataIsNone(resource.metadata)
    /\ ClientCallOf(resource) # NoClientCall
    /\ \E o \in ClientOutcomes :
        /\ o.raised
        /\ resource' = [resource EXCEPT !.metadata = Assigned(resource.metadata, o)]
    /\ rlog' = Append(rlog, LogEntry("fetch_metadata", "", ClientCallOf(resource), 0, 0, 0, 0,
                                     None, Err("AppError", "HTTP_ERROR", "", "")))
    /\ UNCHANGED <<rpc, NotRes>>

\* fetch_metadata of a code resource whose url names no known host: no branch
\* is taken and self.metadata, None, is returned.
FetchMetadataNoClient ==
    /\ CanCall
    /\ MetadataIsNone(resource.metadata)
    /\ ClientCallOf(resource) = NoClientCall
    /\ rlog' = Append(rlog, LogEntry("fetch_metadata", "", NoClientCall, 0, 0, 0, 0,
                                     resource.metadata, NoErr))
    /\ UNCHANGED <<resource, rpc, NotRes>>

\* open_file: the scope is entered, the file exists and is read, the scope is
\* exited, and the text is returned unless it is None.
OpenFileFound ==
    /\ CanCall
    /\ ScopeOpens(resource)
    /\ \E filename \in Filenames, text \in Texts :
        LET out == ReturnOrNotFound(text, filename, resource.url)
        IN  rlog' = Append(rlog, LogEntry("open_file", filename, NoClientCall,
                                          1, 1, 1, 1, out.value, out.err))
    /\ UNCHANGED <<resource, rpc, NotRes>>

\* open_json_file / open_json: the same with read_json.
OpenJsonFound ==
    /\ CanCall
    /\ ScopeOpens(resource)
    /\ \E filename \in Filenames, data \in JsonValues :
        LET out == ReturnOrNotFound(data, filename, resource.url)
        IN  rlog' = Append(rlog, LogEntry("open_json", filename, NoClientCall,
                                          1, 1, 1, 1, out.value, out.err))
    /\ UNCHANGED <<resource, rpc, NotRes>>

\* open_file or open_json on a file the view does not have: exists is False,
\* nothing is read, the scope is exited and NOT_FOUND raised.
OpenMissing ==
    /\ CanCall
    /\ ScopeOpens(resource)
    /\ \E op \in {"open_file", "open_json"}, filename \in Filenames :
        LET out == ReturnOrNotFound(None, filename, resource.url)
        IN  rlog' = Append(rlog, LogEntry(op, filename, NoClientCall,
                                          1, 1, 1, 0, out.value, out.err))
    /\ UNCHANGED <<resource, rpc, NotRes>>

\* open_file or open_json when entering the scope raises: the exception of
\* __enter__ leaves the call, and __exit__ is not called.
OpenEnterRaises ==
    /\ CanCall
    /\ ScopeOpens(resource)
    /\ \E op \in {"open_file", "open_json"}, filename \in Filenames :
        rlog' = Append(rlog, LogEntry(op, filename, NoClientCall, 1, 0, 0, 0, None,
                                      Err("AppError", "HTTP_ERROR", "", "")))
    /\ UNCHANGED <<resource, rpc, NotRes>>

\* open_file or open_json of a code resource whose url open_codebase does not
\* route: open_codebase raises before any scope.
OpenCodebaseFails ==
    /\ CanCall
    /\ ~ScopeOpens(resource)
    /\ \E op \in {"open_file", "open_json"}, filename \in Filenames :
        rlog' = Append(rlog, LogEntry(op, filename, NoClientCall, 0, 0, 0, 0, None,
                                      Err("AppError", "UNSUPPORTED_URL", "", "")))
    /\ UNCHANGED <<resource, rpc, NotRes>>

ResNext ==
    \/ ResourceInit
    \/ ResourceInitRaises
    \/ FetchMetadataCached
    \/ FetchMetadataCall
    \/ FetchMetadataRaises
    \/ FetchMetadataNoClient
    \/ OpenFileFound
    \/ OpenJsonFound
    \/ OpenMissing
    \/ OpenEnterRaises
    \/ OpenCodebaseFails

-----------------------------------------------------------------------------
(* Logging configuration (logger.py) *)

\* The levels of the logging module.
CRITICAL == 50

WARNING == 30

INFO == 20

DEBUG == 10

\* _LEVEL_MAP.get(os.environ.get("LOG_LEVEL", "0"), logging.CRITICAL+1)
LevelOf(log_level) ==
    LET key == IF log_level = None THEN "0" ELSE log_level
    IN  CASE key = "0" -> CRITICAL + 1
          [] key = "1" -> INFO
          [] key = "2" -> DEBUG
          [] OTHER -> CRITICAL + 1

\* The values of LOG_LEVEL: unset, the three levels, and two unrecognised ones.
LogLevels == {None, "0", "1", "2", "3", "debug"}

\* The values of LOG_FILE: unset, empty, and two paths.
LogFiles == {None, "", "run.log", "logs/run.log"}

\* `if path`: the variable is set and not empty.
Truthy(path) == path # None /\ path # ""

FileHandler(path, level) == [kind |-> "FileHandler", path |-> path, level |-> level]

\* A handler some earlier configuration left on the root logger.
StreamHandler == [kind |-> "StreamHandler", path |-> "", level |-> 0]

\* `path and level <= logging.DEBUG`
WritesFile(path, level) == Truthy(path) /\ level <= DEBUG

LogInit ==
    /\ environ \in [LOG_FILE : LogFiles, LOG_LEVEL : LogLevels]
    /\ root_logger \in [handlers : {<<>>, <<StreamHandler>>,
                                    <<FileHandler("old.log", DEBUG)>>},
                        level : {WARNING}]
    /\ lpc = "env"

\* Logging is not in use.
LogOff ==
    /\ environ = [LOG_FILE |-> None, LOG_LEVEL |-> None]
    /\ root_logger = [handlers |-> <<>>, level |-> WARNING]
    /\ lpc = "off"

\* The environment is changed before the next setup_logging().
Putenv ==
    /\ lpc = "configured"
    /\ \E e \in [LOG_FILE : LogFiles, LOG_LEVEL : LogLevels] :
        /\ e # environ
        /\ environ' = e
    /\ lpc' = "env"
    /\ UNCHANGED <<root_logger, NotLog>>

\* setup_logging(): the handlers are cleared, the level is set, and the file
\* handler is added when a file is set and the level admits it.
setup_logging ==
    /\ lpc \in {"env", "configured"}
    /\ LET path == environ.LOG_FILE
           level == LevelOf(environ.LOG_LEVEL)
       IN  root_logger' =
               [handlers |-> IF WritesFile(path, level)
                             THEN <<FileHandler(path, level)>> ELSE <<>>,
                level |-> level]
    /\ lpc' = "configured"
    /\ UNCHANGED <<environ, NotLog>>

LogNext ==
    \/ Putenv
    \/ setup_logging

-----------------------------------------------------------------------------
(* Specifications *)

InitEngine == EngineInit /\ ClientOff /\ EvalOff /\ NetOff /\ FetchOff /\ ResOff /\ LogOff

SpecEngine == InitEngine /\ [][EngineNext]_vars

InitClient == ClientInit /\ EngineOff /\ EvalOff /\ NetOff /\ FetchOff /\ ResOff /\ LogOff

SpecClient == InitClient /\ [][ClientNext]_vars

InitEvaluator == EvalInit /\ ClientOff /\ EngineOff /\ NetOff /\ FetchOff /\ ResOff /\ LogOff

SpecEvaluator == InitEvaluator /\ [][EvalNext]_vars

InitNetScore == NetInit /\ ClientOff /\ EngineOff /\ EvalOff /\ FetchOff /\ ResOff /\ LogOff

SpecNetScore == InitNetScore /\ [][NetNext]_vars

InitFetch == FetchInit /\ ClientOff /\ EngineOff /\ EvalOff /\ NetOff /\ ResOff /\ LogOff

SpecFetch == InitFetch /\ [][FetchNext]_vars

InitResource ==
    ResInit /\ ClientOff /\ EngineOff /\ EvalOff /\ NetOff /\ FetchOff /\ LogOff

SpecResource == InitResource /\ [][ResNext]_vars

InitLogging ==
    LogInit /\ ClientOff /\ EngineOff /\ EvalOff /\ NetOff /\ FetchOff /\ ResOff

SpecLogging == InitLogging /\ [][LogNext]_vars

-----------------------------------------------------------------------------
(* Claims about _get_json, checked under SpecClient *)

Is5xx(o) == o.kind = "response" /\ o.status >= 500 /\ o.status < 600

Is2xx(o) == o.kind = "response" /\ o.status >= 200 /\ o.status < 300

Is4xxNot429(o) == o.kind = "response" /\ o.status >= 400 /\ o.status < 500 /\ o.status # 429

AllBefore5xx(n) == \A i \in 1..(n - 1) : Is5xx(gets[i])

HttpErrorOf(o) ==
    [kind |-> "http_error_from_hf_response", url |-> url, status |-> o.status, body |-> o.text]

\* C1: while every response so far is 5xx and no more than `retries` requests
\* were made the call is still in its loop, about to issue the next request; and
\* when k <= retries 5xx responses are followed by a 2xx response the call has
\* returned the parsed body of that response after exactly k + 1 requests.
C1_SuccessAfterRetries ==
    /\ (Len(gets) <= retries /\ AllBefore5xx(Len(gets) + 1))
           => (cpc = "loop" /\ attempt = Len(gets))
    /\ (Len(gets) >= 1 /\ Is2xx(gets[Len(gets)]) /\ AllBefore5xx(Len(gets)))
           => /\ cpc = "returned"
              /\ cresult = [kind |-> "return", value |-> json(gets[Len(gets)].text)]
              /\ Len(gets) <= retries + 1

\* C1 witness: [503, 503, 200] with retries = 2 has returned after 3 requests.
C1_Witness ==
    /\ retries = 2
    /\ Len(gets) = 3
    /\ gets[1].status = 503 /\ gets[2].status = 503 /\ gets[3].status = 200
    /\ cpc = "returned"

\* C2: never more than retries + 1 requests; R + 1 responses that are all 5xx
\* end the call with the error built from the url and the last response's status
\* and body, and fewer than that leave it retrying.
C2_ExhaustedRetriesRaise ==
    /\ Len(gets) <= retries + 1
    /\ AllBefore5xx(Len(gets) + 1) =>
          IF Len(gets) <= retries
          THEN cpc = "loop"
          ELSE cpc = "raised" /\ cresult = HttpErrorOf(gets[Len(gets)])

\* C2 witness: [503, 503, 503] with retries = 2 has raised after 3 requests, the
\* last body differing from the first.
C2_Witness ==
    /\ retries = 2
    /\ Len(gets) = 3
    /\ \A i \in 1..3 : gets[i].status = 503
    /\ gets[1].text # gets[3].text
    /\ cpc = "raised"

\* C3: a 4xx response other than 429 is the last request of the call, whatever
\* the attempts left: the call has raised the error built from the url and that
\* response's status and body, and has slept only before it (once per earlier
\* attempt), not after it.
C3_ClientErrorTerminates ==
    \A i \in 1..Len(gets) :
        Is4xxNot429(gets[i]) =>
            /\ i = Len(gets)
            /\ cpc = "raised"
            /\ cresult = HttpErrorOf(gets[i])
            /\ Len(sleeps) = i - 1

\* C3 witness: a 404 on the first attempt with two retries still available.
C3_Witness ==
    /\ retries = 2
    /\ Len(gets) = 1
    /\ gets[1].status = 404
    /\ cpc = "raised"
    /\ sleeps = <<>>

\* C4 (as claimed): transport failures are retried while attempts remain, and
\* after retries + 1 consecutive transport failures the call has raised a typed
\* NetworkError carrying the url.
C4_TransportFailureIsNetworkError ==
    (\A i \in 1..Len(gets) : gets[i] = TransportFailure) =>
        IF Len(gets) <= retries
        THEN cpc = "loop"
        ELSE cpc = "raised" /\ cresult.kind = "NetworkError" /\ cresult.url = url

\* C5 (as claimed): a 429 with attempts remaining is followed by one wait, equal
\* to the Retry-After header when the response has one and to backoff * 2^attempt
\* otherwise, and the call goes on to the next attempt; a 429 on the last
\* allowed attempt ends the call with the typed error.
C5_RetryAfterHonoured ==
    \A i \in 1..Len(gets) :
        (gets[i].kind = "response" /\ gets[i].status = 429) =>
            IF i <= retries
            THEN /\ Len(sleeps) >= i
                 /\ gets[i].retry_after = "absent"
                        => sleeps[i] = ComputedBackoff(backoff, i - 1)
                 /\ FloatParses(gets[i].retry_after)
                        => sleeps[i] = FloatOf(gets[i].retry_after)
                 /\ (cpc = "loop" /\ attempt = i) \/ Len(gets) > i
            ELSE cpc = "raised" /\ cresult = HttpErrorOf(gets[i])

-----------------------------------------------------------------------------
(* Claims about the engine, checked under SpecEngine *)

\* run_metrics as a function of the registry alone (latency 0 throughout).
RECURSIVE RunAll(_, _)
RunAll(items, acc) ==
    IF items = <<>> THEN acc
    ELSE RunAll(Tail(items),
                SetItem(acc, Head(items)[1], _safe_run(Head(items)[1], Head(items)[2], 0)))

\* The registry with the raising metrics left out.
RECURSIVE WithoutRaising(_)
WithoutRaising(items) ==
    IF items = <<>> THEN <<>>
    ELSE IF Head(items)[2].kind = "raise" THEN WithoutRaising(Tail(items))
    ELSE <<Head(items)>> \o WithoutRaising(Tail(items))

InUnitInterval(f) == ~f.nan /\ 0 <= f.h /\ f.h <= 100

\* C6: when the sequential run_metrics has returned, the mapping has an entry
\* for every registered metric; every metric that raised has value 0.0 and the
\* detail error = "<exception type>: <message>"; every other metric has the
\* value it has in a run over the registry without the raising metrics.
C6_FailureIsolation ==
    returned["seq"].done =>
        LET out == returned["seq"].out
            ref == RunAll(WithoutRaising(METRICS), NoResults)
        IN  /\ DOMAIN out = RegisteredNames
            /\ \A i \in 1..Len(METRICS) :
                LET name == METRICS[i][1]
                    fn == METRICS[i][2]
                IN  IF fn.kind = "raise"
                    THEN /\ out[name].value = ScalarValue(Float(0))
                         /\ DOMAIN out[name].details = {"error"}
                         /\ out[name].details["error"] = fn.exc_type \o ": " \o fn.exc_msg
                    ELSE /\ name \in DOMAIN ref
                         /\ out[name].value = ref[name].value

\* C6 witness: a run has returned in which the first metric raised and the
\* second returned 0.5.
C6_Witness ==
    /\ returned["seq"].done
    /\ Len(METRICS) = 2
    /\ METRICS[1][2].kind = "raise"
    /\ METRICS[2][2].kind = "return"
    /\ returned["seq"].out[METRICS[2][1]].value = ScalarValue(Float(50))

\* C7 (as claimed): every value of a returned mapping is a scalar in [0,1] or a
\* mapping whose entries are all in [0,1].
C7_ValuesInUnitInterval ==
    \A m \in Modes : returned[m].done =>
        \A k \in DOMAIN returned[m].out :
            LET v == returned[m].out[k].value
            IN  \/ v.shape = "float" /\ InUnitInterval(v.f)
                \/ v.shape = "dict" /\ \A e \in DOMAIN v.d : InUnitInterval(v.d[e])

\* C8 (as claimed): a metric whose returned value is neither a number nor a
\* mapping gets value 0.0 and details holding a note, beyond what the metric
\* itself put there, that the shape was invalid.
C8_InvalidShapeNoted ==
    returned["seq"].done =>
        \A i \in 1..Len(METRICS) :
            LET name == METRICS[i][1]
                fn == METRICS[i][2]
            IN  (fn.kind = "return" /\ fn.value.shape = "other") =>
                    /\ returned["seq"].out[name].value = ScalarValue(Float(0))
                    /\ DOMAIN returned["seq"].out[name].details \ DOMAIN fn.details # {}

C11_EveryMetricOnceAndNamed ==
    returned["seq"].done =>
        LET out == returned["seq"].out
            calls == returned["seq"].calls
        IN  /\ DOMAIN calls = RegisteredNames
            /\ \A k \in RegisteredNames : calls[k] = 1
            /\ DOMAIN out = RegisteredNames
            /\ \A k \in DOMAIN out : out[k].name = k

\* C11 witness: a sequential run over two registered metrics has returned, the
\* second of which raised.
C11_Witness ==
    /\ returned["seq"].done
    /\ Cardinality(RegisteredNames) = 2
    /\ DOMAIN returned["seq"].calls = RegisteredNames
    /\ METRICS[2][2].kind = "raise"

-----------------------------------------------------------------------------
(* Claims about the evaluator's run_metrics, checked under SpecEvaluator *)

\* C10 (as claimed): with a selection, exactly the registered metrics named in
\* it are in the result, unregistered names being ignored; with none, every
\* registered metric is.
C10_SelectionRunsRegisteredSubset ==
    call_out # NoCall =>
        DOMAIN call_out = IF include.none THEN DefaultNames
                          ELSE include.names \cap DefaultNames

-----------------------------------------------------------------------------
(* Claims about NetScore.evaluate, checked under SpecNetScore *)

\* What one metric adds by the rule of the weight table: weight * value for a
\* float under a name of the table, weight * mean for a mapping under "size",
\* nothing otherwise.
Contribution(mt) ==
    IF mt.name = "size" /\ mt.value.shape = "dict" /\ DOMAIN mt.value.d # {}
    THEN METRIC_WEIGHTS["size"] * mean(mt.value.d)
    ELSE IF mt.value.shape = "float" /\ mt.name \in DOMAIN METRIC_WEIGHTS
    THEN METRIC_WEIGHTS[mt.name] * Quarters(mt.value.f)
    ELSE 0

RECURSIVE WeightedSum(_)
WeightedSum(ms) ==
    IF ms = <<>> THEN 0 ELSE Contribution(Head(ms)) + WeightedSum(Tail(ms))

\* The number x of hundredths as a net score in 1/40000.
Score(x) == 100 * Quarters(Float(x))

RECURSIVE WithoutUnknown(_)
WithoutUnknown(ms) ==
    IF ms = <<>> THEN <<>>
    ELSE IF Head(ms).name \in DOMAIN METRIC_WEIGHTS
    THEN <<Head(ms)>> \o WithoutUnknown(Tail(ms))
    ELSE WithoutUnknown(Tail(ms))

\* No size metric of the list has an empty mapping.
WellFormed(ms) ==
    \A i \in 1..Len(ms) : ~(IsSizeDict(ms[i]) /\ DOMAIN ms[i].value.d = {})

\* C13 (as claimed): on a well-formed input holding a metric whose name is not
\* in the weight table, evaluate ends without an error and self.value is the
\* net score of the input with those metrics removed.
C13_UnknownNameIgnored ==
    (/\ npc \in {"done", "raised"}
     /\ WellFormed(metrics)
     /\ \E i \in 1..Len(metrics) : metrics[i].name \notin DOMAIN METRIC_WEIGHTS) =>
        /\ npc = "done"
        /\ self_value = WeightedSum(WithoutUnknown(metrics))

\* The sum of the weights, in hundredths.
SumOfWeights == SumOf([k \in DOMAIN METRIC_WEIGHTS |-> Float(METRIC_WEIGHTS[k])])

\* C14 (as claimed): the weights sum to 1.0, and whenever evaluate has returned
\* on a list whose scalar values and size sub-scores are all in [0,1],
\* self.value is in [0,1].
C14_NetScoreInUnitInterval ==
    /\ SumOfWeights = 100
    /\ npc = "done" => (0 <= self_value /\ self_value <= Score(100))

-----------------------------------------------------------------------------
(* Claims about the fetch scopes, checked under SpecFetch *)

\* C15 (as claimed): once the with statement of any fetcher is over, after a
\* body that returned or a body that raised, the temporary directory made on
\* entry is no longer there (a removal that itself failed set aside).
C15_TmpDirGoneAfterExit ==
    (fpc = "exited" /\ observed # Exception("OSError")) => tmp_dir # "exists"

\* C16 (as claimed): when the body raised E and the with statement is over,
\* the caller has E, whether or not the cleanup failed, and the cleanup has run.
C16_BodyExceptionObserved ==
    (fpc = "exited" /\ body = "raised") => (observed = E /\ cleanups = 1)

\* The three providers' hosts.
ProviderHosts == {"github.com", "gitlab.com", "huggingface.co"}

\* The URL names no provider's host, or has a GitHub path without owner and
\* repository, or a GitLab path with no segment at all.
Unsupported(u) ==
    LET host == _parse(u).host
        parts == _parse(u).parts
    IN  \/ host \notin ProviderHosts
        \/ host = "github.com" /\ Len(parts) < 2
        \/ host = "gitlab.com" /\ Len(parts) < 1

\* C17 (as claimed): once open_codebase has been called on an unsupported or
\* unparsable URL, it has raised an AppError with code UNSUPPORTED_URL, no
\* request has been issued and no temporary directory made.
C17_UnsupportedUrlFailsFirst ==
    (call.fn = "open_codebase" /\ Unsupported(call.url) /\ fpc # "call") =>
        /\ fpc = "failed"
        /\ observed.type = "AppError"
        /\ observed.code = "UNSUPPORTED_URL"
        /\ http_gets = <<>>
        /\ tmp_dir = "none"

\* C18 (as claimed): for a URL <repo>/tree/<ref>, the archive download made on
\* entry asks for the url the fetcher builds for <ref> itself.
C18_TreeRefIsDownloaded ==
    (call.fn = "open_codebase" /\ call.url.tree_ref # None /\ http_gets # <<>>) =>
        http_gets[1].url = ArchiveUrl([fetcher EXCEPT !.ref = call.url.tree_ref])

\* C19 (as claimed): when the archive download got a 404, the caller has an
\* error of the NotFound kind.
C19_NotFoundFor404 ==
    (http_gets # <<>> /\ http_gets[Len(http_gets)].status = 404) =>
        (observed.type = "AppError" /\ observed.code = "NOT_FOUND")

\* C20: when the archive download made on entering a GitHub or GitLab scope
\* got a 4xx or 5xx response, entry has raised an AppError with code
\* HTTP_ERROR whose url is the requested one, and the body has not run.
C20_HttpErrorOnEntry ==
    \A i \in 1..Len(http_gets) :
        raise_for_status(http_gets[i].status) =>
            /\ fpc = "failed"
            /\ observed = AppError("HTTP_ERROR", http_gets[i].url)
            /\ http_gets[i].url = ArchiveUrl(fetcher)
            /\ body = "not_run"

\* C20 witness: a GitLab scope whose download got a 403 has failed on entry.
C20_Witness ==
    /\ fpc = "failed"
    /\ fetcher.cls = "_GitLabCodeFetcher"
    /\ Len(http_gets) = 1
    /\ http_gets[1].status = 403
    /\ observed.code = "HTTP_ERROR"

\* The archive url of GitLab's project API for the project at path and the
\* ref r, the project named by its URL-encoded path or by the path itself.
ProjectApiUrls(path, r) ==
    {"https://gitlab.com/api/v4/projects/" \o id \o "/repository/archive.tar.gz?sha=" \o r :
        id \in {Join(path), path[1] \o "%2F" \o path[2] \o "%2F" \o path[3]}}

\* C21 (as claimed): for gitlab.com/group/subgroup/proj and a ref r, the
\* download made on entry asks the project API for the archive of
\* group/subgroup/proj at sha=r.
C21_GitLabNestedGroupsViaApi ==
    (/\ call.fn = "open_codebase"
     /\ call.url = Url("gitlab.com", <<"group", "subgroup", "proj">>)
     /\ http_gets # <<>>) =>
        http_gets[1].url \in ProjectApiUrls(call.url.path, Or(call.ref, "main"))

\* C22: after a snapshot fetch scope has been entered, no file under the
\* view's root is larger than MAX_FILE_BYTES, and every file the download left
\* with a size of at most MAX_FILE_BYTES is still there with that size.
C22_SnapshotFilesBounded ==
    (fpc = "entered" /\ snapshot_calls # <<>>) =>
        LET files == snapshot_calls[Len(snapshot_calls)].files
        IN  /\ \A p \in DOMAIN view_files : view_files[p] <= 262144
            /\ \A p \in DOMAIN files :
                files[p] <= 262144 => (p \in DOMAIN view_files /\ view_files[p] = files[p])

\* C22 witness: a snapshot scope has been entered whose download left one file
\* of exactly 256 KiB, still there, and one larger file, removed.
C22_Witness ==
    /\ fpc = "entered"
    /\ snapshot_calls # <<>>
    /\ DOMAIN snapshot_calls[1].files = {"README.md", "data/shard.bin"}
    /\ snapshot_calls[1].files["README.md"] = 262144
    /\ snapshot_calls[1].files["data/shard.bin"] = 262145
    /\ DOMAIN view_files = {"README.md"}

\* The artifact kind each snapshot fetcher is for, and the allow-list of each
\* kind.
ArtifactKind(cls) ==
    CASE cls = "_HFSpaceFetcher" -> "space"
      [] cls = "HFModelFetcher" -> "model"
      [] cls = "HFDatasetFetcher" -> "dataset"

AllowListOf(kind) ==
    CASE kind = "space" -> SPACE_ALLOW
      [] kind = "model" -> MODEL_ALLOW
      [] kind = "dataset" -> DATASET_ALLOW

\* C23 (as claimed): every snapshot_download call is made with the repo type
\* and the allow-list of the fetcher's own artifact kind and with the repo id
\* owner/name.
C23_SnapshotTypeAndAllowList ==
    \A i \in 1..Len(snapshot_calls) :
        LET kw == snapshot_calls[i].kwargs
            kind == ArtifactKind(fetcher.cls)
        IN  /\ kw.repo_type = kind
            /\ kw.allow_patterns = AllowListOf(kind)
            /\ kw.repo_id = fetcher.owner \o "/" \o fetcher.repo

-----------------------------------------------------------------------------
(* Resources *)

\* The calls made on the resource so far, by position.
Logged == 1..Len(rlog)

\* C24: once a fetch_metadata call on a resource has succeeded, every later
\* fetch_metadata call on it returns the same value and makes no client call.
C24_MetadataCached ==
    \A i, j \in Logged :
        (/\ i < j
         /\ rlog[i].op = "fetch_metadata" /\ rlog[i].err = NoErr
         /\ rlog[j].op = "fetch_metadata")
        => /\ rlog[j].err = NoErr
           /\ rlog[j].value = rlog[i].value
           /\ rlog[j].client = NoClientCall

\* A client-backed fetch_metadata succeeded and fetch_metadata was called again.
C24_Witness ==
    \E i, j \in Logged :
        /\ i < j
        /\ rlog[i].op = "fetch_metadata" /\ rlog[i].err = NoErr
        /\ rlog[i].client # NoClientCall
        /\ rlog[j].op = "fetch_metadata"

\* A call that opened a file the view has: the existence check was made and
\* the view was read.
FoundFile(e) == e.op \in {"open_file", "open_json"} /\ e.exists = 1 /\ e.reads = 1

\* A call that asked for a file the view does not have.
MissingFile(e) == e.op \in {"open_file", "open_json"} /\ e.exists = 1 /\ e.reads = 0

\* C25: open_file / open_json(_file) returns the content of a file that exists
\* in the fetched view, whatever the content; for a file that does not exist
\* it raises AppError NOT_FOUND whose message names the file and whose context
\* carries the resource URL, without reading the view.
C25_OpenReturnsContentOrNotFound ==
    \A i \in Logged :
        /\ FoundFile(rlog[i]) => rlog[i].err = NoErr
        /\ MissingFile(rlog[i]) =>
               rlog[i].err = Err("AppError", "NOT_FOUND", UrlString(resource.url),
                                 rlog[i].filename \o " does not exist in this repo.")

\* The <owner>/<name> of a Hugging Face model or space URL.
OwnerName(u) ==
    IF _is_hf_space_url(u) THEN u.path[2] \o "/" \o u.path[3]
    ELSE u.path[1] \o "/" \o u.path[2]

\* A model resource on https://huggingface.co/<owner>/<name>, or a code
\* resource on https://huggingface.co/spaces/<owner>/<name>.
OwnerNameUrl(r) ==
    /\ r.url.netloc = "huggingface.co"
    /\ \/ r.cls = "ModelResource" /\ Len(r.url.path) = 2
       \/ r.cls = "CodeResource" /\ _is_hf_space_url(r.url) /\ Len(r.url.path) = 3

\* C26: a resource made with a model URL https://huggingface.co/<owner>/<name>
\* or a space URL https://huggingface.co/spaces/<owner>/<name> is constructed
\* without failure, and its repo id, the one its metadata requests use, is
\* <owner>/<name>.
C26_RepoIdIsOwnerName ==
    OwnerNameUrl(resource) =>
        /\ rpc # "failed"
        /\ rpc = "ready" =>
              /\ resource._repo_id = OwnerName(resource.url)
              /\ ClientCallOf(resource).arg = OwnerName(resource.url)

-----------------------------------------------------------------------------
(* The evaluator's records *)

\* A line of the input file that is neither blank nor starting with "#".
IsUrlLine(l) == l \notin {"", "   ", "# models"}

\* The names of the records printed so far, in the order printed.
Names == [i \in 1..Len(stdout) |-> stdout[i].name]

\* C27: the records printed are, in order, one for each line read so far that
\* is neither blank nor starting with "#", each with that line as its name;
\* blank lines and "#" lines give no record.
C27_OneRecordPerUrlLine ==
    Names = SelectSeq(SubSeq(lines, 1, line_no), IsUrlLine)

\* A file of two lines was read to its end, one of them ignored and the other
\* giving the only record.
C27_Witness ==
    /\ vpc = "exit"
    /\ Len(lines) = 2
    /\ Len(stdout) = 1
    /\ \E i \in 1..2 : ~IsUrlLine(lines[i])

\* The metrics main runs for a line, and the net score.
Reported == DOMAIN run_metrics(NoInclude) \cup {"net_score"}

\* C28: every record printed has, for every metric that was run and for the
\* net score, the field <metric> and the field <metric>_latency, a
\* non-negative whole number of milliseconds.
C28_ValueAndLatencyFields ==
    \A i \in 1..Len(stdout) :
        \A n \in Reported :
            /\ n \in DOMAIN stdout[i].fields
            /\ (n \o "_latency") \in DOMAIN stdout[i].fields
            /\ stdout[i].fields[n \o "_latency"] \in Nat

-----------------------------------------------------------------------------
(* The registry *)

\* C29: a registration never replaces or hides an implementation that is
\* already registered: every (name, implementation) pair of the registry is
\* still in it after any registration.
C29_RegistrationKeepsImplementations ==
    [][\A j \in 1..Len(METRICS) : \E k \in 1..Len(METRICS') : METRICS'[k] = METRICS[j]]_vars

-----------------------------------------------------------------------------
(* The metadata requests *)

\* The metadata request is over, _get_json having returned.
MetadataDone == cpc = "returned" /\ mresult.kind # "none"

\* C30 as stated: a schema error is raised after exactly one GET request.
C30_SchemaErrorAfterOneGet ==
    (MetadataDone /\ mresult.kind = "AppError") => Len(gets) = 1

\* C30: when the 2xx body is not a JSON object, get_model_metadata and
\* get_dataset_metadata raise AppError SCHEMA_ERROR; when it is one they return
\* it unchanged.  The 2xx response is the only one and the last request made:
\* the requests before it are the retried failures of _get_json, none when
\* retries is 0, and no request follows a schema error.
C30_SchemaErrorNotRetried ==
    MetadataDone =>
        LET last == gets[Len(gets)]
        IN  /\ Is2xx(last)
            /\ \A i \in 1..(Len(gets) - 1) : ~Is2xx(gets[i])
            /\ Len(gets) = attempt + 1
            /\ retries = 0 => Len(gets) = 1
            /\ IF json(last.text).type = "dict"
               THEN mresult = [kind |-> "return", value |-> json(last.text)]
               ELSE /\ mresult.kind = "AppError"
                    /\ mresult.code = "SCHEMA_ERROR"
                    /\ mresult.url = url

\* A schema error was raised for a 2xx body that is a list.
C30_Witness ==
    /\ MetadataDone
    /\ mresult.kind = "AppError"
    /\ json(gets[Len(gets)].text).type = "list"

-----------------------------------------------------------------------------
(* Logging *)

\* The root logger has a file handler.
HasFileHandler == \E i \in 1..Len(root_logger.handlers) :
                      root_logger.handlers[i].kind = "FileHandler"

\* C31: after setup_logging, the root logger has a file handler exactly when a
\* log file is set and LOG_LEVEL is "1" (info) or "2" (debug); it has none at
\* level "0", for an unset or unrecognised level, or with no file set.
C31_FileHandlerAboveMinimum ==
    lpc = "configured" =>
        (HasFileHandler <=> (Truthy(environ.LOG_FILE) /\ environ.LOG_LEVEL \in {"1", "2"}))

-----------------------------------------------------------------------------
(* Authentication of the archive downloads *)

GitHubClasses == {"_GitHubCodeFetcher", "GitHubCodeFetcher"}

AuthHeaders == {"Authorization", "PRIVATE-TOKEN"}

\* An archive fetcher whose __enter__ has run its download, to a view or to an error.
Downloaded ==
    /\ fetcher.cls \in ArchiveClasses
    /\ ~fetcher.need_history
    /\ fpc \in {"entered", "failed"}

C32_WitnessNoToken ==
    /\ Downloaded
    /\ fpc = "entered"
    /\ fetcher.token = None

-----------------------------------------------------------------------------
(* The backoff schedule of _get_json *)

\* The request of attempt a (a = 0, 1, ...) failed with a 5xx response or with
\* a transport failure.
FailedPlainly(a) == Is5xx(gets[a + 1]) \/ gets[a + 1] = TransportFailure

\* C33: every retry is preceded by exactly one wait and nothing else is: as
\* many waits as retries, none after the request that ended the call.  The
\* wait after failed attempt a is backoff * 2^a when that attempt got a 5xx
\* response or a transport failure, so these waits grow strictly from attempt
\* to attempt.
C33_BackoffSchedule ==
    /\ Len(sleeps) = attempt
    /\ cpc = "loop" => Len(gets) = Len(sleeps)
    /\ cpc \in {"returned", "raised"} => Len(gets) = Len(sleeps) + 1
    /\ \A a \in 0..(Len(sleeps) - 1) :
           FailedPlainly(a) => sleeps[a + 1] = backoff * 2^a
    /\ \A a, b \in 0..(Len(sleeps) - 1) :
           (a < b /\ FailedPlainly(a) /\ FailedPlainly(b)) => sleeps[a + 1] < sleeps[b + 1]

\* Two retries were made, after a 5xx response and after a transport failure,
\* and the call is over.
C33_Witness ==
    /\ cpc \in {"returned", "raised"}
    /\ Len(sleeps) = 2
    /\ Is5xx(gets[1])
    /\ gets[2] = TransportFailure

-----------------------------------------------------------------------------
(* The root of an unpacked archive *)

\* An archive was downloaded and unpacked by __enter__.
Unpacked ==
    /\ Downloaded
    /\ http_gets[1].status = 200
    /\ observed # Exception("ReadError")

\* C34: after an archive is unpacked the view's root is the single top-level
\* directory when the archive holds exactly one directory and nothing else;
\* when it holds several top-level entries or none, the scope is entered and
\* the view's root is the extraction directory.
C34_RootOfUnpackedArchive ==
    Unpacked =>
        IF Cardinality(extracted) = 1 /\ Dirs(extracted) # {}
        THEN fpc = "entered" /\ _root \in Dirs(extracted)
        ELSE (Cardinality(extracted) # 1) => (fpc = "entered" /\ _root = ".")

\* C35: when no ref is given in the URL or as an argument, an archive fetcher
\* asks the provider for the default branch before it downloads the archive:
\* the archive request is not the only request made.
C35_DefaultBranchLookedUp ==
    (Downloaded /\ http_gets[1].status = 200
        /\ call.ref = None /\ _extract_rev(_parse(call.url).parts) = None)
    => Len(http_gets) >= 2

-----------------------------------------------------------------------------
(* The registered ramp_up_time metric *)

\* C36: when the function registered as ramp_up_time is the ramp_up_time
\* metric and it returns without raising, the run reports for ramp_up_time
\* the clamped score the function computed and no error detail.
C36_RampUpScoreReported ==
    \A m \in Modes : returned[m].done =>
        \A i \in 1..Len(METRICS) :
            (METRICS[i][1] = "ramp_up_time" /\ METRICS[i][2].kind = "return_dict") =>
                LET r == returned[m].out["ramp_up_time"]
                IN  /\ r.value = ScalarValue(_clamp(METRICS[i][2].value.f))
                    /\ "error" \notin DOMAIN r.details

-----------------------------------------------------------------------------
(* Failed entries, scoped fetches, failed metadata requests, ref precedence *)

\* C37: when __enter__ has failed and the caller has the error, the temporary
\* directory made for the scope is not on disk.
C37_NoTmpDirAfterFailedEntry ==
    (fpc = "failed" /\ fetcher # NoFetcher) => tmp_dir # "exists"

\* The positions of an event in the events of a call.
At(e, ev) == {i \in 1..Len(e.events) : e.events[i] = ev}

\* A call of open_file / open_json whose scope was entered and whose body ran.
ScopedCall(e) == e.op \in {"open_file", "open_json"} /\ e.exists = 1

FailedFetch(e) == e.op = "fetch_metadata" /\ e.err # NoErr

\* A fetch_metadata call whose client call returned.
StoredFetch(e) == e.op = "fetch_metadata" /\ e.err = NoErr /\ e.client # NoClientCall

\* C39: a fetch_metadata whose client call raised raises, and leaves metadata
\* unset: the next fetch_metadata makes the client call again.  metadata is
\* set only to what a client call returned.
C39_FailureNotCached ==
    /\ \A k \in Logged : FailedFetch(rlog[k]) => rlog[k].client # NoClientCall
    /\ \A i, j \in Logged :
           (/\ i < j
            /\ FailedFetch(rlog[i])
            /\ rlog[j].op = "fetch_metadata"
            /\ \A k \in (i + 1)..(j - 1) : rlog[k].op # "fetch_metadata")
           => rlog[j].client = rlog[i].client
    /\ (\A k \in Logged : ~StoredFetch(rlog[k])) => resource.metadata = None
    /\ resource.metadata # None =>
           \E k \in Logged : StoredFetch(rlog[k]) /\ rlog[k].value = resource.metadata

\* A fetch_metadata failed and the next one was made.
C39_Witness ==
    /\ Len(rlog) = 2
    /\ FailedFetch(rlog[1])
    /\ rlog[2].op = "fetch_metadata"

\* The segment after the first tree, blob or resolve of a URL's path, None
\* when there is none.
Embedded(u) ==
    LET p == u.path
        at == {i \in 1..(Len(p) - 1) : p[i] = "tree" \/ p[i] = "blob" \/ p[i] = "resolve"}
    IN  IF at = {} THEN None
        ELSE p[(CHOOSE i \in at : \A j \in at : i <= j) + 1]

\* open_codebase has returned a GitHub or GitLab fetcher.
CodeFetcherMade ==
    /\ call.fn = "open_codebase"
    /\ fetcher.cls \in {"_GitHubCodeFetcher", "_GitLabCodeFetcher"}

\* C40: the fetcher open_codebase makes for a GitHub or GitLab URL has as its
\* ref the revision embedded in the URL when there is one, whatever the ref
\* argument; the ref argument when the URL embeds none; and "main" when
\* neither is given.
C40_RefPrecedence ==
    CodeFetcherMade =>
        fetcher.ref = IF Embedded(call.url) # None THEN Embedded(call.url)
                      ELSE IF call.ref # None THEN call.ref
                      ELSE "main"

\* A URL with an embedded revision was opened with a ref argument as well.
C40_Witness ==
    /\ CodeFetcherMade
    /\ Embedded(call.url) # None
    /\ call.ref # None
    /\ call.ref # Embedded(call.url)

====
